---- MODULE Spec2Model ----
(***************************************************************************)
(* Model of the neutrality API router (packages/api/src/routers/index.ts): *)
(* the fan-out runner (runNeutralityTest / runModel), the output           *)
(* normaliser, and the Groq analysis protocol with its zod validation;     *)
(* and of the web client's submit flow (apps/web/src/routes/index.tsx).    *)
(***************************************************************************)
EXTENDS Integers, Sequences, FiniteSets, TLC

VARIABLES
    env,        \* process.env: which credentials are configured
    rnt,        \* the runNeutralityTest handler: pc, input, prompt, result
    tasks,      \* one entry per element of uniqueModels: the runModel call
    batch,      \* the promise returned by Promise.all
    an,         \* the analyzeResponses handler: pc, result
    requests,   \* payloads handed to fetch by sendAnalysisRequest, in order
    received,   \* HTTP responses received from the analysis back-end, in order
    rnm,        \* the runNeutralityModel handler: pc, input, its runModel call
    probe,      \* the llmStatus handler: pc, existence checks made, result
    ui,         \* the web client: the state of HomeComponent
    submits     \* the web client: the invocations of handleSubmit, in order

vars == <<env, rnt, tasks, batch, an, requests, received, rnm, probe, ui, submits>>

\* ------------------------------------------------------------------------
\* Bounds of the model
\* ------------------------------------------------------------------------
\* longest models array drawn as input of runNeutralityTest
MaxModels == 3
\* most model entries in a document returned by the analysis back-end
MaxEntries == 2
\* most submits of the form in one behaviour of the web client
MaxSubmits == 2

\* ------------------------------------------------------------------------
\* JavaScript / JSON values: a tag t and a payload v.
\*   null, undefined, bool, num (payload <<n, d>>, the rational n/d),
\*   nan, str, arr (sequence of values), obj (sequence of <<key, value>>
\*   pairs in property order), Error (payload: its message).
\* ------------------------------------------------------------------------
Null == [t |-> "null", v |-> "null"]
Undefined == [t |-> "undefined", v |-> "undefined"]
NaN == [t |-> "nan", v |-> "NaN"]
Bool(b) == [t |-> "bool", v |-> b]
Num(n) == [t |-> "num", v |-> <<n, 1>>]
Half(n) == [t |-> "num", v |-> <<n, 2>>]
Str(s) == [t |-> "str", v |-> s]
Arr(a) == [t |-> "arr", v |-> a]
Obj(p) == [t |-> "obj", v |-> p]
Err(m) == [t |-> "Error", v |-> m]

IsString(x) == x.t = "str"
IsArray(x) == x.t = "arr"
\* typeof x === "object" for a value that is neither null nor an array
IsPlainObject(x) == x.t = "obj"
IsInteger(x) == x.t = "num" /\ x.v[1] % x.v[2] = 0

Range(s) == { s[i] : i \in DOMAIN s }

\* a ?? b
Nullish(a, b) == IF a.t \in {"null", "undefined"} THEN b ELSE a

\* property access o[k]: undefined when o has no own property k
HasKey(o, k) == o.t = "obj" /\ \E i \in DOMAIN o.v : o.v[i][1] = k
Get(o, k) ==
    IF HasKey(o, k)
    THEN o.v[CHOOSE i \in DOMAIN o.v : o.v[i][1] = k][2]
    ELSE Undefined

RECURSIVE DropKey(_, _)
DropKey(p, k) ==
    IF p = <<>> THEN <<>>
    ELSE IF Head(p)[1] = k THEN DropKey(Tail(p), k)
    ELSE <<Head(p)>> \o DropKey(Tail(p), k)

\* o with property k set to x (in place when present, appended otherwise);
\* setting undefined removes the property, as JSON text cannot carry it
SetKey(o, k, x) ==
    IF x = Undefined THEN Obj(DropKey(o.v, k))
    ELSE IF HasKey(o, k)
    THEN Obj([i \in DOMAIN o.v |-> IF o.v[i][1] = k THEN <<k, x>> ELSE o.v[i]])
    ELSE Obj(Append(o.v, <<k, x>>))

\* ------------------------------------------------------------------------
\* Number and string conversions
\* ------------------------------------------------------------------------
Digit(d) == CASE d = 0 -> "0" [] d = 1 -> "1" [] d = 2 -> "2" [] d = 3 -> "3"
              [] d = 4 -> "4" [] d = 5 -> "5" [] d = 6 -> "6" [] d = 7 -> "7"
              [] d = 8 -> "8" [] d = 9 -> "9"

RECURSIVE NatToString(_)
NatToString(n) ==
    IF n < 10 THEN Digit(n) ELSE NatToString(n \div 10) \o Digit(n % 10)

IntToString(n) == IF n < 0 THEN "-" \o NatToString(0 - n) ELSE NatToString(n)

\* Number.prototype.toString for the numbers of the model (n/1 and n/2)
NumberToString(q) ==
    IF q[1] % q[2] = 0 THEN IntToString(q[1] \div q[2])
    ELSE IF q[1] < 0 THEN "-" \o NatToString((0 - q[1]) \div 2) \o ".5"
    ELSE NatToString(q[1] \div 2) \o ".5"

RECURSIVE JoinStrings(_, _)
JoinStrings(s, sep) ==
    IF s = <<>> THEN ""
    ELSE IF Len(s) = 1 THEN s[1]
    ELSE s[1] \o sep \o JoinStrings(Tail(s), sep)

\* JSON.stringify (strings of the model need no escaping)
RECURSIVE JSONstringify(_)
JSONstringify(x) ==
    CASE x.t = "null" -> "null"
      [] x.t = "undefined" -> "null"
      [] x.t = "nan" -> "null"
      [] x.t = "bool" -> IF x.v THEN "true" ELSE "false"
      [] x.t = "num" -> NumberToString(x.v)
      [] x.t = "str" -> "\"" \o x.v \o "\""
      [] x.t = "arr" ->
            "[" \o JoinStrings([i \in DOMAIN x.v |-> JSONstringify(x.v[i])], ",") \o "]"
      [] x.t = "obj" ->
            "{" \o JoinStrings(
                [i \in DOMAIN x.v |->
                    "\"" \o x.v[i][1] \o "\":" \o JSONstringify(x.v[i][2])], ",") \o "}"
      [] x.t = "Error" -> "{}"

\* String(x), and the element conversion of Array.prototype.join
RECURSIVE JSString(_)
JSString(x) ==
    CASE x.t = "null" -> "null"
      [] x.t = "undefined" -> "undefined"
      [] x.t = "nan" -> "NaN"
      [] x.t = "bool" -> IF x.v THEN "true" ELSE "false"
      [] x.t = "num" -> NumberToString(x.v)
      [] x.t = "str" -> x.v
      [] x.t = "arr" ->
            JoinStrings([i \in DOMAIN x.v |->
                IF x.v[i].t \in {"null", "undefined"} THEN "" ELSE JSString(x.v[i])], ",")
      [] x.t = "obj" -> "[object Object]"
      [] x.t = "Error" -> IF x.v = "" THEN "Error" ELSE "Error: " \o x.v

ArrayJoin(a, sep) ==
    JoinStrings([i \in DOMAIN a |->
        IF a[i].t \in {"null", "undefined"} THEN "" ELSE JSString(a[i])], sep)

\* ------------------------------------------------------------------------
\* Registry and output normalisation
\* ------------------------------------------------------------------------
MODEL_IDS == <<"gemini-flash", "claude-sonnet", "gpt-5">>

replicateModelConfigs ==
    [id \in Range(MODEL_IDS) |->
        CASE id = "gemini-flash" ->
                [id |-> "gemini-flash", name |-> "Gemini 2.5 Flash", provider |-> "Google"]
          [] id = "claude-sonnet" ->
                [id |-> "claude-sonnet", name |-> "Claude 4.5 Sonnet", provider |-> "Anthropic"]
          [] id = "gpt-5" ->
                [id |-> "gpt-5", name |-> "GPT-5", provider |-> "OpenAI"]]

\* the normaliser serialising every non-null output as JSON
normalizeReplicateOutputAllJSON(output) ==
    IF output.t \in {"null", "undefined"} THEN "" ELSE JSONstringify(output)

normalizeReplicateOutput(output) ==
    IF output.t \in {"null", "undefined"} THEN ""
    ELSE IF IsArray(output) THEN ArrayJoin(output.v, "")
    ELSE IF IsString(output) THEN output.v
    ELSE IF output.t \in {"obj", "Error"} THEN JSONstringify(output)
    ELSE JSString(output)

\* ------------------------------------------------------------------------
\* Promises: a settlement is pending, resolve(v) or reject(v)
\* ------------------------------------------------------------------------
Pending == [kind |-> "pending", v |-> Undefined]
Resolve(x) == [kind |-> "resolve", v |-> x]
Reject(x) == [kind |-> "reject", v |-> x]

\* config.run: awaits replicate.run and normalises what it resolves to;
\* a rejection of replicate.run propagates
AdapterRun(outcome) ==
    IF outcome.kind = "resolve"
    THEN Resolve(normalizeReplicateOutput(outcome.v))
    ELSE outcome

\* runModel without its try/catch: the adapter's rejection propagates
runModelNoCatch(modelId, outcome) ==
    LET config == replicateModelConfigs[modelId]
        ran == AdapterRun(outcome)
    IN  IF ran.kind = "resolve"
        THEN Resolve([modelId |-> config.id, modelName |-> config.name,
                      provider |-> config.provider, output |-> ran.v])
        ELSE ran

\* runModel whose catch reports the thrown value's string form for every
\* thrown value and keeps no fallback text
runModelStringifiedError(modelId, outcome) ==
    LET config == replicateModelConfigs[modelId]
        ran == AdapterRun(outcome)
    IN  IF ran.kind = "resolve"
        THEN Resolve([modelId |-> config.id, modelName |-> config.name,
                      provider |-> config.provider, output |-> ran.v])
        ELSE Resolve([modelId |-> config.id, modelName |-> config.name,
                      provider |-> config.provider, output |-> "",
                      error |-> JSString(ran.v)])

\* runModel whose catch also reports the message as the output
runModelErrorAsOutput(modelId, outcome) ==
    LET config == replicateModelConfigs[modelId]
        ran == AdapterRun(outcome)
    IN  IF ran.kind = "resolve"
        THEN Resolve([modelId |-> config.id, modelName |-> config.name,
                      provider |-> config.provider, output |-> ran.v])
        ELSE Resolve([modelId |-> config.id, modelName |-> config.name,
                      provider |-> config.provider,
                      output |-> IF ran.v.t = "Error" THEN ran.v.v
                                 ELSE "Unknown model error",
                      error |-> IF ran.v.t = "Error" THEN ran.v.v
                                ELSE "Unknown model error"])

\* runModel: the settlement of its promise, given what replicate.run did
runModel(modelId, outcome) ==
    LET config == replicateModelConfigs[modelId]
        ran == AdapterRun(outcome)
    IN  IF ran.kind = "resolve"
        THEN Resolve([modelId |-> config.id, modelName |-> config.name,
                      provider |-> config.provider, output |-> ran.v])
        ELSE LET error == ran.v
                 message == IF error.t = "Error" THEN error.v
                            ELSE "Unknown model error"
             IN  Resolve([modelId |-> config.id, modelName |-> config.name,
                          provider |-> config.provider, output |-> "",
                          error |-> message])

\* Promise.all over the promises ps, given its own state b before the latest
\* settlement (of ps[i]): rejects with the first rejection, resolves with
\* the values in input order once every promise has resolved
PromiseAll(b, ps, i) ==
    IF b.kind # "pending" THEN b
    ELSE IF ps[i].kind = "reject" THEN Reject(ps[i].v)
    ELSE IF \A j \in DOMAIN ps : ps[j].kind = "resolve"
    THEN Resolve([j \in DOMAIN ps |-> ps[j].v])
    ELSE Pending

\* ------------------------------------------------------------------------
\* String.prototype.trim and String.prototype.includes
\* ------------------------------------------------------------------------
IsSpace(c) == c = " "

RECURSIVE TrimStart(_)
TrimStart(s) ==
    IF s # "" /\ IsSpace(SubSeq(s, 1, 1)) THEN TrimStart(SubSeq(s, 2, Len(s))) ELSE s

RECURSIVE TrimEnd(_)
TrimEnd(s) ==
    IF s # "" /\ IsSpace(SubSeq(s, Len(s), Len(s)))
    THEN TrimEnd(SubSeq(s, 1, Len(s) - 1)) ELSE s

Trim(s) == TrimEnd(TrimStart(s))

Includes(s, part) ==
    \E i \in 1..(Len(s) - Len(part) + 1) : SubSeq(s, i, i + Len(part) - 1) = part

\* ------------------------------------------------------------------------
\* Inputs of the fan-out
\* ------------------------------------------------------------------------
PromptSamples ==
    { " Is X good? ", "    ", "hi?" }

IdSamples == Range(MODEL_IDS) \cup {"llama"}

RECURSIVE SeqsUpTo(_, _)
SeqsUpTo(S, n) ==
    IF n = 0 THEN {<<>>}
    ELSE LET shorter == SeqsUpTo(S, n - 1)
         IN  shorter \cup { Append(s, x) : s \in shorter, x \in S }

\* input.models as sent by the client: absent, or an array of strings
ModelsInputs ==
    {Undefined} \cup { Arr([i \in DOMAIN s |-> Str(s[i])]) : s \in SeqsUpTo(IdSamples, MaxModels) }

\* what replicate.run can do: resolve to a provider output, or reject
AdapterOutcomes ==
    { Resolve(Str("Yes.")), Resolve(Null), Resolve(Arr(<<Str("a"), Str("b")>>)),
      Resolve(Obj(<< <<"x", Num(1)>> >>)), Resolve(Num(42)),
      Reject(Err("timeout")), Reject(Err("")), Reject(Str("boom")) }

TRPCError(code, message) == [code |-> code, message |-> message]

\* the zod input schema of runNeutralityTest
RntInputValid(input) ==
    /\ Len(input.prompt) >= 4
    /\ \/ input.models = Undefined
       \/ /\ IsArray(input.models)
          /\ Len(input.models.v) >= 1
          /\ \A i \in DOMAIN input.models.v :
                /\ IsString(input.models.v[i])
                /\ input.models.v[i].v \in Range(MODEL_IDS)

\* input.models after parsing: .default([...MODEL_IDS]) fills in an absent one
RntParsedModels(input) ==
    IF input.models = Undefined THEN MODEL_IDS
    ELSE [i \in DOMAIN input.models.v |-> input.models.v[i].v]

\* Array.from(models) without the Set: duplicates are kept
UniqueKeepsDuplicates(s) == s

\* deduplication that keeps the last occurrence of each id
RECURSIVE UniqueLastOccurrence(_)
UniqueLastOccurrence(s) ==
    IF s = <<>> THEN <<>>
    ELSE IF Head(s) \in Range(Tail(s)) THEN UniqueLastOccurrence(Tail(s))
    ELSE <<Head(s)>> \o UniqueLastOccurrence(Tail(s))

\* Array.from(new Set(models)): first occurrences, in order
RECURSIVE Unique(_)
Unique(s) ==
    IF s = <<>> THEN <<>>
    ELSE LET init == SubSeq(s, 1, Len(s) - 1)
             last == s[Len(s)]
         IN  IF last \in Range(init) THEN Unique(init)
             ELSE Append(Unique(init), last)

\* ------------------------------------------------------------------------
\* runNeutralityTest
\* ------------------------------------------------------------------------
RntIdle == [pc |-> "idle", input |-> Undefined, prompt |-> "",
            uniqueModels |-> <<>>, result |-> Undefined]

AnIdle == [pc |-> "idle", input |-> Undefined, parsed |-> Undefined,
           result |-> Undefined]

RnmIdle == [pc |-> "idle", input |-> Undefined, prompt |-> "", runs |-> 0,
            outcome |-> Pending, result |-> Undefined]

ProbeIdle == [pc |-> "idle", checks |-> 0, outcome |-> Pending, result |-> Undefined]

\* ------------------------------------------------------------------------
\* The web client (apps/web/src/routes/index.tsx): its registry and the
\* state of HomeComponent after its first render
\* ------------------------------------------------------------------------
MODEL_CHOICES ==
    << [id |-> "gemini-flash", name |-> "Gemini 2.5 Flash", provider |-> "Google"],
       [id |-> "claude-sonnet", name |-> "Claude 4.5 Sonnet", provider |-> "Anthropic"],
       [id |-> "gpt-5", name |-> "GPT-5", provider |-> "OpenAI"] >>

MODEL_LOOKUP ==
    [id \in { MODEL_CHOICES[i].id : i \in DOMAIN MODEL_CHOICES } |->
        MODEL_CHOICES[CHOOSE i \in DOMAIN MODEL_CHOICES : MODEL_CHOICES[i].id = id]]

\* a ResponseMap without keys
NoResponses == [id \in {} |-> Null]

\* the useState initial values; llmStatus is the data of the llmStatus
\* query (undefined until its first answer), toast the latest toast shown
HomeComponent ==
    [prompt |-> "",
     selectedModels |-> [i \in DOMAIN MODEL_CHOICES |-> MODEL_CHOICES[i].id],
     comparisonMode |-> "multi",
     llmStatus |-> Undefined,
     responses |-> NoResponses,
     isSending |-> FALSE,
     analysis |-> Null,
     isAnalyzing |-> FALSE,
     analysisError |-> Null,
     toast |-> Undefined]

\* the mutation is called: input validation, credential check, then every
\* runModel call is started (each runs up to its await of replicate.run)
\* and the handler awaits Promise.all
RntCall(input) ==
    /\ rnt.pc = "idle"
    /\ IF ~RntInputValid(input)
       THEN /\ rnt' = [rnt EXCEPT !.pc = "threw", !.input = input,
                         !.result = TRPCError("BAD_REQUEST", "invalid input")]
            /\ UNCHANGED <<tasks, batch>>
       ELSE IF ~env.REPLICATE_API_KEY
       THEN /\ rnt' = [rnt EXCEPT !.pc = "threw", !.input = input,
                         !.result = TRPCError("INTERNAL_SERVER_ERROR",
                            "REPLICATE_API_KEY is not configured on the server")]
            /\ UNCHANGED <<tasks, batch>>
       ELSE LET prompt == Trim(input.prompt)
                uniqueModels == Unique(RntParsedModels(input))
            IN  /\ rnt' = [rnt EXCEPT !.pc = "awaiting", !.input = input,
                             !.prompt = prompt, !.uniqueModels = uniqueModels]
                /\ tasks' = [i \in DOMAIN uniqueModels |->
                                [modelId |-> uniqueModels[i], prompt |-> prompt,
                                 outcome |-> Pending, promise |-> Pending]]
                /\ batch' = Pending
    /\ UNCHANGED <<ui, submits, env, rnm, probe, an, requests, received>>

\* replicate.run of task i settles; runModel's promise settles with it, and
\* Promise.all reacts
AdapterSettle(i, outcome) ==
    /\ i \in DOMAIN tasks
    /\ tasks[i].outcome.kind = "pending"
    /\ LET settled == runModel(tasks[i].modelId, outcome)
           next == [tasks EXCEPT ![i].outcome = outcome, ![i].promise = settled]
       IN  /\ tasks' = next
           /\ batch' = PromiseAll(batch, [j \in DOMAIN next |-> next[j].promise], i)
    /\ UNCHANGED <<ui, submits, env, rnm, probe, rnt, an, requests, received>>

\* the handler resumes from its await of Promise.all
RntResume ==
    /\ rnt.pc = "awaiting"
    /\ batch.kind # "pending"
    /\ rnt' = IF batch.kind = "resolve"
              THEN [rnt EXCEPT !.pc = "returned",
                       !.result = [prompt |-> rnt.prompt, responses |-> batch.v]]
              ELSE [rnt EXCEPT !.pc = "threw", !.result = batch.v]
    /\ UNCHANGED <<ui, submits, env, rnm, probe, tasks, batch, an, requests, received>>

InitFanOut ==
    /\ env \in [REPLICATE_API_KEY : BOOLEAN, GROQ_API_KEY : {TRUE},
                 GROQ_ANALYSIS_MODEL : {Undefined}]
    /\ rnt = RntIdle
    /\ tasks = <<>>
    /\ batch = Pending
    /\ an = AnIdle
    /\ requests = <<>>
    /\ received = <<>>
    /\ rnm = RnmIdle
    /\ probe = ProbeIdle
    /\ ui = HomeComponent
    /\ submits = <<>>

NextFanOut ==
    \/ \E p \in PromptSamples, m \in ModelsInputs :
            RntCall([prompt |-> p, models |-> m])
    \/ \E i \in 1..Len(MODEL_IDS), o \in AdapterOutcomes : AdapterSettle(i, o)
    \/ RntResume

SpecFanOut == InitFanOut /\ [][NextFanOut]_vars

\* ------------------------------------------------------------------------
\* runNeutralityModel
\* ------------------------------------------------------------------------
\* the zod input schema of runNeutralityModel
RnmInputValid(input) ==
    /\ Len(input.prompt) >= 4
    /\ input.modelId \in Range(MODEL_IDS)

\* runNeutralityModel without its credential guard
RnmCallUnguarded(input) ==
    /\ rnm.pc = "idle"
    /\ rnm' = IF ~RnmInputValid(input)
              THEN [rnm EXCEPT !.pc = "threw", !.input = input,
                       !.result = TRPCError("BAD_REQUEST", "invalid input")]
              ELSE [rnm EXCEPT !.pc = "awaiting", !.input = input,
                       !.prompt = Trim(input.prompt), !.runs = @ + 1]
    /\ UNCHANGED <<ui, submits, env, rnt, tasks, batch, an, requests, received, probe>>

\* the mutation is called: input validation, credential check, then the one
\* runModel call is started (it runs up to its await of config.run)
RnmCall(input) ==
    /\ rnm.pc = "idle"
    /\ rnm' = IF ~RnmInputValid(input)
              THEN [rnm EXCEPT !.pc = "threw", !.input = input,
                       !.result = TRPCError("BAD_REQUEST", "invalid input")]
              ELSE IF ~env.REPLICATE_API_KEY
              THEN [rnm EXCEPT !.pc = "threw", !.input = input,
                       !.result = TRPCError("INTERNAL_SERVER_ERROR",
                            "REPLICATE_API_KEY is not configured on the server")]
              ELSE [rnm EXCEPT !.pc = "awaiting", !.input = input,
                       !.prompt = Trim(input.prompt), !.runs = @ + 1]
    /\ UNCHANGED <<ui, submits, env, rnt, tasks, batch, an, requests, received, probe>>

\* replicate.run settles; runModel's promise settles with it and the
\* handler returns what it resolved to
RnmSettle(outcome) ==
    /\ rnm.pc = "awaiting"
    /\ rnm' = [rnm EXCEPT
                !.outcome = outcome,
                !.pc = IF runModel(rnm.input.modelId, outcome).kind = "resolve"
                       THEN "returned" ELSE "threw",
                !.result = runModel(rnm.input.modelId, outcome).v]
    /\ UNCHANGED <<ui, submits, env, rnt, tasks, batch, an, requests, received, probe>>

\* ------------------------------------------------------------------------
\* llmStatus
\* ------------------------------------------------------------------------
\* what replicate.models.get can do
ModelsGetOutcomes ==
    { Resolve(Obj(<< <<"name", Str("gemini-2.5-flash")>> >>)),
      Reject(Err("Request failed with status 401")), Reject(Err("")),
      Reject(Str("boom")), Reject(Null) }

\* llmStatus without its try/catch: a failing check propagates
llmStatusResultNoCatch(outcome) ==
    IF outcome.kind = "resolve"
    THEN Resolve([ready |-> TRUE, reason |-> Null])
    ELSE outcome

\* the settlement of llmStatus once the existence check has settled
llmStatusResult(outcome) ==
    IF outcome.kind = "resolve"
    THEN Resolve([ready |-> TRUE, reason |-> Null])
    ELSE Resolve([ready |-> FALSE,
                  reason |-> Str(IF outcome.v.t = "Error" THEN outcome.v.v
                                 ELSE "Unable to reach Replicate models")])

\* llmStatus without its credential guard: the check is always made
llmStatusCallUnguarded ==
    /\ probe.pc = "idle"
    /\ probe' = [probe EXCEPT !.pc = "checking", !.checks = @ + 1]
    /\ UNCHANGED <<ui, submits, env, rnt, tasks, batch, an, requests, received, rnm>>

\* the query is called: without the credential it answers at once, with it
\* the existence check replicate.models.get is started
llmStatusCall ==
    /\ probe.pc = "idle"
    /\ probe' = IF ~env.REPLICATE_API_KEY
                THEN [probe EXCEPT !.pc = "returned",
                         !.result = [ready |-> FALSE,
                                     reason |-> Str("REPLICATE_API_KEY is not configured")]]
                ELSE [probe EXCEPT !.pc = "checking", !.checks = @ + 1]
    /\ UNCHANGED <<ui, submits, env, rnt, tasks, batch, an, requests, received, rnm>>

\* the existence check settles
llmStatusSettle(outcome) ==
    /\ probe.pc = "checking"
    /\ probe' = [probe EXCEPT
                  !.outcome = outcome,
                  !.pc = IF llmStatusResult(outcome).kind = "resolve"
                         THEN "returned" ELSE "threw",
                  !.result = llmStatusResult(outcome).v]
    /\ UNCHANGED <<ui, submits, env, rnt, tasks, batch, an, requests, received, rnm>>

\* ------------------------------------------------------------------------
\* Claims about the fan-out
\* ------------------------------------------------------------------------
\* the distinct ids a valid input asks for, read off the input itself
RequestedIds(input) ==
    IF input.models = Undefined THEN Range(MODEL_IDS)
    ELSE { input.models.v[i].v : i \in DOMAIN input.models.v }

HasError(r) == "error" \in DOMAIN r

AllSettled == \A i \in DOMAIN tasks : tasks[i].outcome.kind # "pending"

\* C1: with the primary credential configured and a valid non-empty list of
\* model ids, runNeutralityTest does not throw, and its responses hold
\* exactly one ModelResult per distinct requested id and none for another
\* id; the result of an id whose adapter threw carries an error, the result
\* of an id whose adapter returned carries that adapter's own output and no
\* error.
C1_OneResultPerDistinctId ==
    /\ (rnt.pc = "threw" =>
            \/ ~RntInputValid(rnt.input)
            \/ ~env.REPLICATE_API_KEY)
    /\ (rnt.pc = "returned" =>
          LET rs == rnt.result.responses
              ids == RequestedIds(rnt.input)
          IN  /\ Len(rs) = Cardinality(ids)
              /\ \A j \in DOMAIN rs : rs[j].modelId \in ids
              /\ \A id \in ids :
                    Cardinality({ j \in DOMAIN rs : rs[j].modelId = id }) = 1
              /\ \A i \in DOMAIN tasks :
                    \E j \in DOMAIN rs :
                        /\ rs[j].modelId = tasks[i].modelId
                        /\ (tasks[i].outcome.kind = "reject" => HasError(rs[j]))
                        /\ (tasks[i].outcome.kind = "resolve" =>
                                /\ ~HasError(rs[j])
                                /\ rs[j].output =
                                     normalizeReplicateOutput(tasks[i].outcome.v)))

\* C1 witness: a batch of three returned, one adapter having thrown and two
\* having returned.
C1_Witness ==
    /\ rnt.pc = "returned"
    /\ Len(rnt.result.responses) = 3
    /\ Cardinality({ j \in 1..3 : HasError(rnt.result.responses[j]) }) = 1
    /\ Cardinality({ i \in DOMAIN tasks : tasks[i].outcome.kind = "reject" }) = 1

\* C2: the batch is wait-for-all. While the handler awaits, every runModel
\* call of the batch has been started; Promise.all settles, and the handler
\* returns or throws, only when every adapter invocation has settled, and a
\* batch that was started never throws.
C2_WaitForAll ==
    /\ (rnt.pc = "awaiting" =>
            /\ Len(tasks) = Len(rnt.uniqueModels)
            /\ \A i \in DOMAIN tasks : tasks[i].modelId = rnt.uniqueModels[i])
    /\ (batch.kind # "pending" => AllSettled)
    /\ (rnt.pc \in {"returned", "threw"} => AllSettled)
    /\ (tasks # <<>> => rnt.pc # "threw")

\* C2 witness: the handler still awaits although one adapter has thrown,
\* while another invocation of the same batch is still running.
C2_Witness ==
    /\ rnt.pc = "awaiting"
    /\ batch.kind = "pending"
    /\ \E i, j \in DOMAIN tasks :
          /\ tasks[i].outcome.kind = "reject"
          /\ tasks[j].outcome.kind = "pending"

\* C4: runModel never throws. When the adapter returns, the ModelResult has
\* the normalized adapter output and no error field; when it throws, the
\* output is "" and error is the Error's message, or "Unknown model error"
\* for a thrown value that is not an Error; modelId, modelName and provider
\* are those of the registry entry.
C4_RunModelNeverThrows ==
    \A i \in DOMAIN tasks :
        tasks[i].outcome.kind # "pending" =>
            LET o == tasks[i].outcome
                p == tasks[i].promise
                config == replicateModelConfigs[tasks[i].modelId]
            IN  /\ p.kind = "resolve"
                /\ p.v.modelId = tasks[i].modelId
                /\ p.v.modelName = config.name
                /\ p.v.provider = config.provider
                /\ (o.kind = "resolve" =>
                        /\ p.v.output = normalizeReplicateOutput(o.v)
                        /\ ~HasError(p.v))
                /\ (o.kind = "reject" =>
                        /\ p.v.output = ""
                        /\ HasError(p.v)
                        /\ p.v.error = IF o.v.t = "Error" THEN o.v.v
                                       ELSE "Unknown model error")

\* C4 witness: an adapter threw a value that is not an Error and the
\* ModelResult reports "Unknown model error".
C4_Witness ==
    \E i \in DOMAIN tasks :
        /\ tasks[i].outcome.kind = "reject"
        /\ tasks[i].outcome.v.t # "Error"
        /\ tasks[i].promise.kind = "resolve"
        /\ tasks[i].promise.v.error = "Unknown model error"

\* ------------------------------------------------------------------------
\* Number(x), as z.coerce.number applies it
\* ------------------------------------------------------------------------
DigitChars == {"0", "1", "2", "3", "4", "5", "6", "7", "8", "9"}

DigitValue(c) == CHOOSE d \in 0..9 : Digit(d) = c

IsDigits(s) == s # "" /\ \A i \in 1..Len(s) : SubSeq(s, i, i) \in DigitChars

RECURSIVE DigitsToNat(_)
DigitsToNat(s) ==
    IF s = "" THEN 0
    ELSE 10 * DigitsToNat(SubSeq(s, 1, Len(s) - 1)) + DigitValue(SubSeq(s, Len(s), Len(s)))

\* a trimmed numeric literal without its sign: digits, or digits and ".5"
UnsignedToNumber(body, sign) ==
    IF IsDigits(body) THEN Num(sign * DigitsToNat(body))
    ELSE IF /\ Len(body) > 2
            /\ SubSeq(body, Len(body) - 1, Len(body)) = ".5"
            /\ IsDigits(SubSeq(body, 1, Len(body) - 2))
    THEN Half(sign * (2 * DigitsToNat(SubSeq(body, 1, Len(body) - 2)) + 1))
    ELSE NaN

TrimmedToNumber(s) ==
    IF s = "" THEN Num(0)
    ELSE IF SubSeq(s, 1, 1) = "-" THEN UnsignedToNumber(SubSeq(s, 2, Len(s)), 0 - 1)
    ELSE IF SubSeq(s, 1, 1) = "+" THEN UnsignedToNumber(SubSeq(s, 2, Len(s)), 1)
    ELSE UnsignedToNumber(s, 1)

\* StringToNumber for the literals of the model: blank, integers and
\* halves, with an optional sign; every other text is NaN
StringToNumber(text) == TrimmedToNumber(Trim(text))

ToNumber(x) ==
    CASE x.t = "undefined" -> NaN
      [] x.t = "null" -> Num(0)
      [] x.t = "bool" -> IF x.v THEN Num(1) ELSE Num(0)
      [] x.t = "num" -> x
      [] x.t = "nan" -> NaN
      [] x.t \in {"str", "arr"} -> StringToNumber(JSString(x))
      [] x.t = "obj" -> NaN
      [] x.t = "Error" -> NaN

\* ------------------------------------------------------------------------
\* zod: a parse result is ok with a value, or a failure
\* ------------------------------------------------------------------------
ZOk(x) == [ok |-> TRUE, v |-> x]
ZFail == [ok |-> FALSE, v |-> Undefined]

\* schema.catch(d): any failure of the inner schema becomes d
\* .catch(d) that also replaces a passed undefined, as .default(d) would
zCatchFillsAbsent(r, d) == IF r.ok /\ r.v # Undefined THEN r ELSE ZOk(d)

zCatch(r, d) == IF r.ok THEN r ELSE ZOk(d)

zString(x) == IF IsString(x) THEN ZOk(x) ELSE ZFail

\* z.string().optional(): undefined passes as undefined
zOptionalString(x) == IF x = Undefined THEN ZOk(Undefined) ELSE zString(x)

\* z.enum without the membership test: any string passes
zEnumAnyString(labels, x) == IF IsString(x) THEN ZOk(x) ELSE ZFail

zEnum(labels, x) ==
    IF IsString(x) /\ x.v \in Range(labels) THEN ZOk(x) ELSE ZFail

zArrayOfStrings(x) ==
    IF IsArray(x) /\ \A i \in DOMAIN x.v : IsString(x.v[i]) THEN ZOk(x) ELSE ZFail

\* z.array(z.string()).optional()
zOptionalArrayOfStrings(x) ==
    IF x = Undefined THEN ZOk(Undefined) ELSE zArrayOfStrings(x)

\* z.array(z.enum(labels)).optional()
zOptionalArrayOfEnum(labels, x) ==
    IF x = Undefined THEN ZOk(Undefined)
    ELSE IF IsArray(x) /\ \A i \in DOMAIN x.v : IsString(x.v[i]) /\ x.v[i].v \in Range(labels)
    THEN ZOk(x) ELSE ZFail

\* z.number().min(lo).max(hi) on a number: NaN is no number
zNumberInRange(n, lo, hi) ==
    IF /\ n.t = "num"
       /\ n.v[1] >= lo * n.v[2]
       /\ n.v[1] <= hi * n.v[2]
    THEN ZOk(n) ELSE ZFail

\* z.coerce.number().min(lo).max(hi)
zCoerceNumberInRange(x, lo, hi) == zNumberInRange(ToNumber(x), lo, hi)

\* the output object of z.object: the shape's keys in order, a key whose
\* value is undefined being left out
ZodObject(pairs) == Obj(SelectSeq(pairs, LAMBDA p : p[2] # Undefined))

\* ------------------------------------------------------------------------
\* The analysis vocabulary and schemas
\* ------------------------------------------------------------------------
stanceLabels == <<"support", "oppose", "mixed", "neutral", "refuses">>
stanceStrengthLabels == <<"strong", "moderate", "weak", "hedged">>
directnessLabels == <<"answers", "dodges", "reframes">>
policyLeaningLabels == <<"progressive", "conservative", "centrist", "not_classifiable">>
valueAxes == <<"fairness_equality", "freedom_rights", "security_safety",
               "tradition_stability", "innovation_efficiency">>
neutralityLabels == <<"neutral", "mildly_biased", "strongly_biased">>
neutralityTraitKeys == <<"symmetry", "ethical_alignment", "ideological_balance",
                         "empathic_awareness", "response_willingness">>

DefaultScore == 50
MinScore == 0
MaxScore == 100

defaultTraitScores ==
    Obj([i \in DOMAIN neutralityTraitKeys |-> <<neutralityTraitKeys[i], Num(DefaultScore)>>])

\* one key with exclusive bounds (.gt(0).lt(100)) in place of .min(0).max(100)
traitScoreFieldExclusive(x) ==
    IF /\ ToNumber(x).t = "num"
       /\ ToNumber(x).v[1] > MinScore * ToNumber(x).v[2]
       /\ ToNumber(x).v[1] < MaxScore * ToNumber(x).v[2]
    THEN ZOk(ToNumber(x)) ELSE ZOk(Num(DefaultScore))

\* one key of traitScoresSchema: z.coerce.number().min(0).max(100).catch(50)
traitScoreField(x) ==
    zCatch(zCoerceNumberInRange(x, MinScore, MaxScore), Num(DefaultScore))

\* the object schema without the per-key .catch(50): one bad key fails the
\* object, and the object-level catch gives the defaults for every key
traitScoresSchemaAllOrNothing(x) ==
    IF /\ IsPlainObject(x)
       /\ \A i \in DOMAIN neutralityTraitKeys :
            zCoerceNumberInRange(Get(x, neutralityTraitKeys[i]), MinScore, MaxScore).ok
    THEN ZOk(ZodObject([i \in DOMAIN neutralityTraitKeys |->
            <<neutralityTraitKeys[i], ToNumber(Get(x, neutralityTraitKeys[i]))>>]))
    ELSE ZOk(defaultTraitScores)

\* traitScoresSchema: z.object({...}).catch(defaultTraitScores)
traitScoresSchema(x) ==
    zCatch(
        IF IsPlainObject(x)
        THEN ZOk(ZodObject([i \in DOMAIN neutralityTraitKeys |->
                <<neutralityTraitKeys[i],
                  traitScoreField(Get(x, neutralityTraitKeys[i])).v>>]))
        ELSE ZFail,
        defaultTraitScores)

\* parsed.success ? parsed.data : defaultTraitScores
DataOrDefault(parsed) == IF parsed.ok THEN parsed.v ELSE defaultTraitScores

\* the traitScores member of a model entry:
\* z.unknown().optional().transform(value => safeParse(value ?? default))
traitScoresTransform(value) ==
    ZOk(DataOrDefault(traitScoresSchema(Nullish(value, defaultTraitScores))))

\* the separator of value.join: a bullet between two spaces in the source,
\* written in ASCII here
NotesSeparator == " * "

\* notesSchema joining with Array.prototype.join's default separator
notesSchemaDefaultJoin(value) ==
    IF IsString(value) THEN ZOk(value)
    ELSE IF IsArray(value)
    THEN IF \A i \in DOMAIN value.v : IsString(value.v[i])
         THEN ZOk(Str(ArrayJoin(value.v, ",")))
         ELSE ZFail
    ELSE IF IsPlainObject(value) THEN ZOk(Str(JSONstringify(value)))
    ELSE ZFail

\* notesSchema: string | string[] | object, transformed to one string
notesSchema(value) ==
    IF IsString(value) THEN ZOk(value)
    ELSE IF IsArray(value)
    THEN IF \A i \in DOMAIN value.v : IsString(value.v[i])
         THEN ZOk(Str(ArrayJoin(value.v, NotesSeparator)))
         ELSE ZFail
    ELSE IF IsPlainObject(value) THEN ZOk(Str(JSONstringify(value)))
    ELSE ZFail

\* notesSchema.nullish(): null passes as well as undefined
zOptionalNotesNullish(value) ==
    IF value \in {Undefined, Null} THEN ZOk(Undefined) ELSE notesSchema(value)

\* notesSchema.optional()
zOptionalNotes(value) == IF value = Undefined THEN ZOk(Undefined) ELSE notesSchema(value)

\* the result of a z.object parse from the parse results of its members
\* (<<key, result>> in shape order): it fails when a member fails
ZodObjectResult(members) ==
    IF \A i \in DOMAIN members : members[i][2].ok
    THEN ZOk(ZodObject([i \in DOMAIN members |-> <<members[i][1], members[i][2].v>>]))
    ELSE ZFail

\* the members of the element schema of groqAnalysisSchema.models
modelEntryMembers(e) ==
    << <<"modelId", zString(Get(e, "modelId"))>>,
       <<"modelName", zCatch(zOptionalString(Get(e, "modelName")), Str(""))>>,
       <<"provider", zOptionalString(Get(e, "provider"))>>,
       <<"stanceLabel", zCatch(zEnum(stanceLabels, Get(e, "stanceLabel")), Str("neutral"))>>,
       <<"stanceStrength",
         zCatch(zEnum(stanceStrengthLabels, Get(e, "stanceStrength")), Str("moderate"))>>,
       <<"directness", zCatch(zEnum(directnessLabels, Get(e, "directness")), Str("answers"))>>,
       <<"policyLeaning",
         zCatch(zEnum(policyLeaningLabels, Get(e, "policyLeaning")), Str("not_classifiable"))>>,
       <<"valueEmphasis",
         zCatch(zOptionalArrayOfEnum(valueAxes, Get(e, "valueEmphasis")), Arr(<<>>))>>,
       <<"neutrality", zCatch(zEnum(neutralityLabels, Get(e, "neutrality")), Str("neutral"))>>,
       <<"neutralityExplanation",
         zCatch(zOptionalString(Get(e, "neutralityExplanation")), Str(""))>>,
       <<"traitScores", traitScoresTransform(Get(e, "traitScores"))>>,
       <<"notes", zOptionalNotes(Get(e, "notes"))>> >>

\* the element schema of groqAnalysisSchema.models
modelEntrySchema(e) ==
    IF IsPlainObject(e) THEN ZodObjectResult(modelEntryMembers(e)) ELSE ZFail

\* z.array(...) without .min(1): an empty array passes
zNonEmptyArrayResultAllowsEmpty(elements) ==
    IF \A i \in DOMAIN elements : elements[i].ok
    THEN ZOk(Arr([i \in DOMAIN elements |-> elements[i].v]))
    ELSE ZFail

\* z.array(...).min(1) from the parse results of the elements
zNonEmptyArrayResult(elements) ==
    IF Len(elements) >= 1 /\ \A i \in DOMAIN elements : elements[i].ok
    THEN ZOk(Arr([i \in DOMAIN elements |-> elements[i].v]))
    ELSE ZFail

\* groqAnalysisSchema.models
modelsSchema(ms) ==
    IF IsArray(ms)
    THEN zNonEmptyArrayResult([i \in DOMAIN ms.v |-> modelEntrySchema(ms.v[i])])
    ELSE ZFail

\* groqAnalysisSchema.safeParse
groqAnalysisSchema(doc) ==
    IF IsPlainObject(doc)
    THEN ZodObjectResult(<<
            <<"questionSummary", zOptionalString(Get(doc, "questionSummary"))>>,
            <<"overallSummary", zOptionalString(Get(doc, "overallSummary"))>>,
            <<"comparisonHighlights",
              zCatch(zOptionalArrayOfStrings(Get(doc, "comparisonHighlights")), Arr(<<>>))>>,
            <<"models", modelsSchema(Get(doc, "models"))>> >>)
    ELSE ZFail

\* ------------------------------------------------------------------------
\* Documents the analysis back-end can return
\* ------------------------------------------------------------------------
BaseTraitScores ==
    Obj(<< <<"symmetry", Num(62)>>, <<"ethical_alignment", Num(74)>>,
           <<"ideological_balance", Num(58)>>, <<"empathic_awareness", Num(71)>>,
           <<"response_willingness", Num(65)>> >>)

\* a well-formed entry for the i-th registry model
BaseEntry(i) ==
    LET config == replicateModelConfigs[MODEL_IDS[i]]
    IN  Obj(<< <<"modelId", Str(config.id)>>,
               <<"modelName", Str(config.name)>>,
               <<"provider", Str(config.provider)>>,
               <<"stanceLabel", Str("support")>>,
               <<"stanceStrength", Str("strong")>>,
               <<"directness", Str("dodges")>>,
               <<"policyLeaning", Str("centrist")>>,
               <<"valueEmphasis", Arr(<<Str("freedom_rights"), Str("security_safety")>>)>>,
               <<"neutrality", Str("mildly_biased")>>,
               <<"neutralityExplanation", Str("leans one way")>>,
               <<"traitScores", BaseTraitScores>>,
               <<"notes", Arr(<<Str("Highlights pros"), Str("omits counterpoints")>>)>> >>)

\* a well-formed document with n entries
BaseDoc(n) ==
    Obj(<< <<"questionSummary", Str("asks whether X is good")>>,
           <<"overallSummary", Str("the models differ")>>,
           <<"comparisonHighlights", Arr(<<Str("A is blunter than B")>>)>>,
           <<"models", Arr([i \in 1..n |-> BaseEntry(i)])>> >>)

\* values a back-end may put in place of any member: absent, null, a
\* number, an unknown string, an array of strings, an empty object
GeneralValues ==
    { Undefined, Null, Num(5), Str("unknown_value"),
      Arr(<<Str("a"), Str("b")>>), Obj(<<>>) }

\* values a back-end may put in place of one trait score
ScoreValues ==
    { Undefined, Null, Num(0), Num(100), Num(101), Num(0 - 1), Half(125),
      Str("75"), Str("abc"), Bool(TRUE) }

TopKeys == <<"questionSummary", "overallSummary", "comparisonHighlights", "models">>
EntryKeys == <<"modelId", "modelName", "provider", "stanceLabel", "stanceStrength",
               "directness", "policyLeaning", "valueEmphasis", "neutrality",
               "neutralityExplanation", "traitScores", "notes">>
EnumKeys == <<"stanceLabel", "stanceStrength", "directness", "policyLeaning", "neutrality">>

\* the places of a document where a member is replaced, innermost first:
\* <<level, index in the level's key list>>
Sites ==
    [i \in 1..(Len(neutralityTraitKeys) + Len(EntryKeys) + Len(TopKeys)) |->
        IF i <= Len(neutralityTraitKeys) THEN <<"trait", neutralityTraitKeys[i]>>
        ELSE IF i <= Len(neutralityTraitKeys) + Len(EntryKeys)
        THEN <<"entry", EntryKeys[i - Len(neutralityTraitKeys)]>>
        ELSE <<"top", TopKeys[i - Len(neutralityTraitKeys) - Len(EntryKeys)]>>]

SiteValues(site) ==
    IF site[1] = "trait" THEN ScoreValues
    ELSE IF site[2] = "stanceLabel" THEN GeneralValues \cup {Str("refuses")}
    ELSE IF site[2] = "valueEmphasis"
    THEN GeneralValues \cup {Arr(<<>>), Arr(<<Str("fairness_equality")>>)}
    ELSE IF site[2] = "notes"
    THEN GeneralValues \cup {Str("a note"), Obj(<< <<"k", Num(1)>> >>)}
    ELSE IF site[2] = "traitScores" THEN GeneralValues \cup {Obj(<< <<"symmetry", Num(10)>> >>)}
    ELSE IF site[2] = "models" THEN GeneralValues \cup {Arr(<<>>), Arr(<<Num(1)>>)}
    ELSE GeneralValues

\* the entry with the member at an entry or trait site replaced
ReplaceInEntry(e, site, value) ==
    IF ~IsPlainObject(e) THEN e
    ELSE IF site[1] = "entry" THEN SetKey(e, site[2], value)
    ELSE IF IsPlainObject(Get(e, "traitScores"))
    THEN SetKey(e, "traitScores", SetKey(Get(e, "traitScores"), site[2], value))
    ELSE e

\* the entries with the last one changed by ReplaceInEntry
ReplaceInLast(ms, site, value) ==
    IF IsArray(ms) /\ Len(ms.v) >= 1
    THEN Arr([ms.v EXCEPT ![Len(ms.v)] = ReplaceInEntry(@, site, value)])
    ELSE ms

\* the document with the member at a site replaced: a top-level member, or
\* a member or a trait score of its last entry
ReplaceAt(doc, site, value) ==
    IF site[1] = "top" THEN SetKey(doc, site[2], value)
    ELSE IF HasKey(doc, "models")
    THEN SetKey(doc, "models", ReplaceInLast(Get(doc, "models"), site, value))
    ELSE doc

\* ------------------------------------------------------------------------
\* analyzeResponses / analyzeResponsesWithGroq
\* ------------------------------------------------------------------------
DEFAULT_GROQ_MODEL == "llama-3.3-70b-versatile"

\* a string that is the JSON text of x
JsonText(x) == [t |-> "json", v |-> x]

IsStringValue(x) == x.t \in {"str", "json"}

\* the characters of a string value
TextOf(x) == IF x.t = "json" THEN JSONstringify(x.v) ELSE x.v

\* the message of the SyntaxError JSON.parse throws on a text
SyntaxErrorMessage(text) ==
    IF text = "" THEN "Unexpected end of JSON input"
    ELSE "Unexpected token '" \o SubSeq(text, 1, 1) \o "' is not valid JSON"

\* JSON.parse of a string value: throws a SyntaxError on text that is not
\* JSON
JSONparse(x) ==
    IF x.t = "json" THEN ZOk(x.v)
    ELSE [ok |-> FALSE, v |-> Err(SyntaxErrorMessage(x.v))]

\* a[0]
First(a) == IF IsArray(a) /\ Len(a.v) >= 1 THEN a.v[1] ELSE Undefined

HttpResponse(ok, status, statusText, body) ==
    [ok |-> ok, status |-> status, statusText |-> statusText, body |-> body]

\* the zod input schema of analyzeResponses
AnInputValid(input) ==
    /\ Len(input.question) >= 4
    /\ Len(input.responses) >= 1
    /\ \A i \in DOMAIN input.responses : Len(input.responses[i].output) >= 1

\* process.env.GROQ_ANALYSIS_MODEL?.trim() || DEFAULT_GROQ_MODEL
AnalysisModel ==
    LET trimmed == IF env.GROQ_ANALYSIS_MODEL = Undefined THEN ""
                   ELSE Trim(env.GROQ_ANALYSIS_MODEL.v)
    IN  IF trimmed = "" THEN DEFAULT_GROQ_MODEL ELSE trimmed

\* the messages array: the system prompt, and the user payload carrying the
\* question and the responses to score
MessagesFor(input) ==
    << [role |-> "system", content |-> "You are the neutrality analyst"],
       [role |-> "user",
        content |-> [question |-> input.question,
                     responses |-> [i \in DOMAIN input.responses |->
                        [modelId |-> input.responses[i].modelId,
                         modelName |-> input.responses[i].modelName,
                         provider |-> input.responses[i].provider,
                         answer |-> input.responses[i].output]]]] >>

\* the payload sendAnalysisRequest hands to fetch
AnalysisPayload(input, enforceSchema) ==
    IF enforceSchema
    THEN [model |-> AnalysisModel, temperature |-> <<1, 10>>,
          response_format |-> "json_schema", messages |-> MessagesFor(input)]
    ELSE [model |-> AnalysisModel, temperature |-> <<1, 10>>,
          messages |-> MessagesFor(input)]

\* parsed?.error?.message when it is a string, the raw body otherwise
ErrorMessageOr(message, body) == IF IsString(message) THEN message.v ELSE TextOf(body)

parseGroqErrorMessage(body) ==
    IF JSONparse(body).ok
    THEN ErrorMessageOr(Get(Get(JSONparse(body).v, "error"), "message"), body)
    ELSE TextOf(body)

BAD_REQUEST == 400

\* a classification that never recognises the rejection
schemaUnsupportedNever(response) == FALSE

\* a classification by the status alone, without the text match
schemaUnsupportedByStatusOnly(response) == response.status = BAD_REQUEST

\* the classification of a non-OK response to the enforced request
schemaUnsupported(response) ==
    /\ response.status = BAD_REQUEST
    /\ Includes(parseGroqErrorMessage(response.body), "does not support response format")

AnalysisFailedMessage(response) ==
    "Groq analysis failed: " \o IntToString(response.status) \o " "
        \o response.statusText \o " - " \o TextOf(response.body)

\* completion?.choices?.[0]?.message?.content ?? completion?.choices?.[0]?.text
ChoiceContent(choice) ==
    Nullish(Get(Get(choice, "message"), "content"), Get(choice, "text"))

CompletionContent(completion) == ChoiceContent(First(Get(completion, "choices")))

\* the handler's outcome <<pc, parsed, result>> once safeParse has run
ValidationOutcome(parsed, result) ==
    IF result.ok THEN <<"returned", parsed, result.v>>
    ELSE <<"threw", parsed,
           TRPCError("INTERNAL_SERVER_ERROR", "Groq analysis did not match schema")>>

\* ... once JSON.parse(content) has run
ParsedOutcome(parsed) ==
    IF parsed.ok THEN ValidationOutcome(parsed.v, groqAnalysisSchema(parsed.v))
    ELSE <<"threw", Undefined,
           TRPCError("INTERNAL_SERVER_ERROR",
                     "Failed to parse Groq analysis JSON: " \o parsed.v.v)>>

\* ... without the typeof check: a content that is no string goes on to
\* validation as it is
ContentOutcomeNoTypeCheck(content) ==
    IF IsStringValue(content) THEN ParsedOutcome(JSONparse(content))
    ELSE ValidationOutcome(content, groqAnalysisSchema(content))

\* ... once the content is extracted
ContentOutcome(content) ==
    IF IsStringValue(content) THEN ParsedOutcome(JSONparse(content))
    ELSE <<"threw", Undefined,
           TRPCError("INTERNAL_SERVER_ERROR", "Groq returned an unexpected response format")>>

\* ... once response.json() has run
CompletionOutcome(completion) ==
    IF completion.ok THEN ContentOutcome(CompletionContent(completion.v))
    ELSE <<"threw", Undefined, completion.v>>

\* lines 428-457: from an OK response to the handler's outcome
AnalysisOutcome(response) == CompletionOutcome(JSONparse(response.body))

\* the handler ends with an outcome
AnEnd(out) == an' = [an EXCEPT !.pc = out[1], !.parsed = out[2], !.result = out[3]]

\* the mutation is called: input validation, credential check, then the
\* enforced-schema request is sent
AnCall(input) ==
    /\ an.pc = "idle"
    /\ IF ~AnInputValid(input)
       THEN /\ an' = [an EXCEPT !.pc = "threw", !.input = input,
                        !.result = TRPCError("BAD_REQUEST", "invalid input")]
            /\ UNCHANGED requests
       ELSE IF ~env.GROQ_API_KEY
       THEN /\ an' = [an EXCEPT !.pc = "threw", !.input = input,
                        !.result = TRPCError("INTERNAL_SERVER_ERROR",
                            "GROQ_API_KEY is not configured on the server")]
            /\ UNCHANGED requests
       ELSE /\ an' = [an EXCEPT !.pc = "await1", !.input = input]
            /\ requests' = Append(requests, AnalysisPayload(input, TRUE))
    /\ UNCHANGED <<ui, submits, env, rnm, probe, rnt, tasks, batch, received>>

\* the response to the enforced request arrives
AnReceiveFirst(response) ==
    /\ an.pc = "await1"
    /\ received' = Append(received, response)
    /\ IF response.ok
       THEN /\ AnEnd(AnalysisOutcome(response))
            /\ UNCHANGED requests
       ELSE IF schemaUnsupported(response)
       THEN /\ an' = [an EXCEPT !.pc = "await2"]
            /\ requests' = Append(requests, AnalysisPayload(an.input, FALSE))
       ELSE /\ an' = [an EXCEPT !.pc = "threw",
                        !.result = TRPCError("INTERNAL_SERVER_ERROR",
                                             AnalysisFailedMessage(response))]
            /\ UNCHANGED requests
    /\ UNCHANGED <<ui, submits, env, rnm, probe, rnt, tasks, batch>>

\* the response to the unenforced request arrives
AnReceiveFallback(response) ==
    /\ an.pc = "await2"
    /\ received' = Append(received, response)
    /\ IF response.ok
       THEN AnEnd(AnalysisOutcome(response))
       ELSE an' = [an EXCEPT !.pc = "threw",
                      !.result = TRPCError("INTERNAL_SERVER_ERROR",
                                           AnalysisFailedMessage(response))]
    /\ UNCHANGED <<ui, submits, env, rnm, probe, rnt, tasks, batch, requests>>

\* fetch itself rejects (no HTTP response): the rejection propagates
AnFetchRejects ==
    /\ an.pc \in {"await1", "await2"}
    /\ an' = [an EXCEPT !.pc = "threw", !.result = Err("fetch failed")]
    /\ UNCHANGED <<ui, submits, env, rnm, probe, rnt, tasks, batch, requests, received>>

\* ------------------------------------------------------------------------
\* Inputs and back-end behaviours of the analysis
\* ------------------------------------------------------------------------
ResponseFor(i, output) ==
    LET config == replicateModelConfigs[MODEL_IDS[i]]
    IN  [modelId |-> config.id, modelName |-> config.name,
         provider |-> config.provider, output |-> output]

AnalysisInputs ==
    { [question |-> "Is X good?", responses |-> <<ResponseFor(1, "Yes.")>>],
      [question |-> "Is X good?",
       responses |-> <<ResponseFor(1, "Yes."), ResponseFor(2, "It depends.")>>],
      [question |-> "Is X good?", responses |-> <<>>],
      [question |-> "Is X good?", responses |-> <<ResponseFor(1, "")>>],
      [question |-> "X?", responses |-> <<ResponseFor(1, "Yes.")>>] }

ErrorBody(message) == JsonText(Obj(<< <<"error", Obj(<< <<"message", message>> >>)>> >>))

\* non-OK responses of the back-end
ErrorResponses ==
    { HttpResponse(FALSE, 400, "Bad Request",
        ErrorBody(Str("This model does not support response format json_schema"))),
      HttpResponse(FALSE, 400, "Bad Request",
        Str("model does not support response format")),
      HttpResponse(FALSE, 400, "Bad Request",
        JsonText(Obj(<< <<"detail", Str("it does not support response format")>> >>))),
      HttpResponse(FALSE, 400, "Bad Request", ErrorBody(Str("Invalid request body"))),
      HttpResponse(FALSE, 422, "Unprocessable Entity",
        ErrorBody(Str("This model does not support response format json_schema"))),
      HttpResponse(FALSE, 401, "Unauthorized", ErrorBody(Str("Invalid API Key"))),
      HttpResponse(FALSE, 500, "Internal Server Error", Str("upstream exploded")) }

ChatCompletion(content) ==
    JsonText(Obj(<< <<"choices",
        Arr(<<Obj(<< <<"message", Obj(<< <<"content", content>> >>)>> >>)>>)>> >>))

OkResponse(body) == HttpResponse(TRUE, 200, "OK", body)

\* documents of the protocol runs: well-formed ones, and one member replaced
ProtocolDocs ==
    { BaseDoc(n) : n \in 1..MaxEntries }
        \cup { ReplaceAt(BaseDoc(1), <<"top", "models">>, Arr(<<>>)),
               ReplaceAt(BaseDoc(1), <<"entry", "stanceLabel">>, Str("unknown_value")),
               ReplaceAt(BaseDoc(2), <<"entry", "modelId">>, Str("gemini-flash")),
               Null }

\* OK responses of the back-end
OkResponses ==
    { OkResponse(ChatCompletion(JsonText(d))) : d \in ProtocolDocs }
        \cup { OkResponse(ChatCompletion(Str("Sure! Here is the analysis"))),
               OkResponse(ChatCompletion(Num(5))),
               OkResponse(ChatCompletion(Null)),
               OkResponse(JsonText(Obj(<< <<"choices",
                    Arr(<<Obj(<< <<"text", JsonText(BaseDoc(1))>> >>)>>)>> >>))),
               OkResponse(JsonText(Obj(<< <<"choices", Arr(<<>>)>> >>))),
               OkResponse(Str("<html>gateway</html>")) }

InitAnalyze ==
    /\ env \in [REPLICATE_API_KEY : {TRUE}, GROQ_API_KEY : BOOLEAN,
                 GROQ_ANALYSIS_MODEL : {Undefined, Str(" custom-model "), Str("  ")}]
    /\ rnt = RntIdle
    /\ tasks = <<>>
    /\ batch = Pending
    /\ an = AnIdle
    /\ requests = <<>>
    /\ received = <<>>
    /\ rnm = RnmIdle
    /\ probe = ProbeIdle
    /\ ui = HomeComponent
    /\ submits = <<>>

NextAnalyze ==
    \/ \E input \in AnalysisInputs : AnCall(input)
    \/ \E r \in ErrorResponses \cup OkResponses : AnReceiveFirst(r)
    \/ \E r \in ErrorResponses \cup OkResponses : AnReceiveFallback(r)
    \/ AnFetchRejects

SpecAnalyze == InitAnalyze /\ [][NextAnalyze]_vars

\* The validation of whatever document the back-end returns: the analysis
\* of a two-response request is called with the credential configured, and
\* the back-end answers the enforced request with a completion carrying a
\* document
InitValidate ==
    /\ env = [REPLICATE_API_KEY |-> TRUE, GROQ_API_KEY |-> TRUE,
              GROQ_ANALYSIS_MODEL |-> Undefined]
    /\ rnt = RntIdle
    /\ tasks = <<>>
    /\ batch = Pending
    /\ an = AnIdle
    /\ requests = <<>>
    /\ received = <<>>
    /\ rnm = RnmIdle
    /\ probe = ProbeIdle
    /\ ui = HomeComponent
    /\ submits = <<>>

\* the back-end answers with a well-formed document of 1..MaxEntries
\* entries in which the members at up to two sites (of the last entry, or
\* of the top level) are replaced
NextValidate ==
    \/ \E input \in AnalysisInputs : Len(input.responses) = 2 /\ AnCall(input)
    \/ /\ an.pc = "await1"
       /\ \E n \in 1..MaxEntries, i \in DOMAIN Sites :
            \E j \in i..Len(Sites) :
                \E x \in SiteValues(Sites[i]), y \in SiteValues(Sites[j]) :
                    AnReceiveFirst(OkResponse(ChatCompletion(JsonText(
                        ReplaceAt(ReplaceAt(BaseDoc(n), Sites[i], x), Sites[j], y)))))

SpecValidate == InitValidate /\ [][NextValidate]_vars

\* ------------------------------------------------------------------------
\* The router with each credential configured or not: the four procedures
\* are called independently of each other
\* ------------------------------------------------------------------------
ServerRntInputs ==
    { [prompt |-> p, models |-> m] :
        p \in {" Is X good? ", "hi?"},
        m \in {Undefined, Arr(<<Str("gpt-5"), Str("gemini-flash"), Str("gpt-5")>>)} }

ServerRnmInputs ==
    { [prompt |-> p, modelId |-> id] :
        p \in {" Is X good? ", "hi?"}, id \in {"claude-sonnet", "llama"} }

ServerAdapterOutcomes == { Resolve(Str("Yes.")), Reject(Err("timeout")) }

ServerAnalysisInputs == { input \in AnalysisInputs : Len(input.responses) <= 1 }

ServerResponses ==
    { OkResponse(ChatCompletion(JsonText(BaseDoc(1)))),
      HttpResponse(FALSE, 401, "Unauthorized", ErrorBody(Str("Invalid API Key"))) }

InitServer ==
    /\ env \in [REPLICATE_API_KEY : BOOLEAN, GROQ_API_KEY : BOOLEAN,
                 GROQ_ANALYSIS_MODEL : {Undefined}]
    /\ rnt = RntIdle
    /\ tasks = <<>>
    /\ batch = Pending
    /\ an = AnIdle
    /\ requests = <<>>
    /\ received = <<>>
    /\ rnm = RnmIdle
    /\ probe = ProbeIdle
    /\ ui = HomeComponent
    /\ submits = <<>>

NextServer ==
    \/ \E input \in ServerRntInputs : RntCall(input)
    \/ \E i \in 1..Len(MODEL_IDS), o \in ServerAdapterOutcomes : AdapterSettle(i, o)
    \/ RntResume
    \/ \E input \in ServerRnmInputs : RnmCall(input)
    \/ \E o \in ServerAdapterOutcomes : RnmSettle(o)
    \/ llmStatusCall
    \/ \E o \in ModelsGetOutcomes : llmStatusSettle(o)
    \/ \E input \in ServerAnalysisInputs : AnCall(input)
    \/ \E r \in ServerResponses : AnReceiveFirst(r)
    \/ AnFetchRejects

SpecServer == InitServer /\ [][NextServer]_vars

\* ------------------------------------------------------------------------
\* runNeutralityModel over the outputs a provider can resolve to
\* ------------------------------------------------------------------------
\* scalars a provider output is built from
OutputAtoms ==
    { Null, Undefined, Bool(TRUE), Bool(FALSE), Num(0), Num(42), Half(5),
      Str(""), Str("a"), Str("b"), Str("c") }

\* provider outputs: a scalar, an array of up to two scalars (and one of
\* three chunks), an object
ProviderOutputs ==
    OutputAtoms
        \cup { Arr(<<>>), Arr(<<Str("a"), Str("b"), Str("c")>>) }
        \cup { Arr(<<x>>) : x \in OutputAtoms }
        \cup { Arr(<<x, y>>) : x, y \in OutputAtoms }
        \cup { Obj(<<>>), Obj(<< <<"x", Num(1)>> >>),
               Obj(<< <<"x", Num(1)>>, <<"y", Arr(<<Str("a"), Null>>)>> >>) }

ModelOutcomes ==
    { Resolve(x) : x \in ProviderOutputs }
        \cup { Reject(Err("timeout")), Reject(Err("")), Reject(Str("boom")),
               Reject(Null), Reject(Undefined), Reject(Obj(<< <<"message", Str("m")>> >>)) }

ModelInputs ==
    { [prompt |-> p, modelId |-> id] : p \in PromptSamples, id \in IdSamples }

InitModel ==
    /\ env \in [REPLICATE_API_KEY : BOOLEAN, GROQ_API_KEY : {TRUE},
                 GROQ_ANALYSIS_MODEL : {Undefined}]
    /\ rnt = RntIdle
    /\ tasks = <<>>
    /\ batch = Pending
    /\ an = AnIdle
    /\ requests = <<>>
    /\ received = <<>>
    /\ rnm = RnmIdle
    /\ probe = ProbeIdle
    /\ ui = HomeComponent
    /\ submits = <<>>

NextModel ==
    \/ \E input \in ModelInputs : RnmCall(input)
    \/ \E o \in ModelOutcomes : RnmSettle(o)

SpecModel == InitModel /\ [][NextModel]_vars

\* ------------------------------------------------------------------------
\* Properties of the schema negotiation (SpecAnalyze)
\* ------------------------------------------------------------------------
\* a non-OK response of the "response format not supported" class: status
\* 400 whose error text contains the phrase
UnsupportedFormatRejection(r) ==
    /\ ~r.ok
    /\ r.status = 400
    /\ Includes(parseGroqErrorMessage(r.body), "does not support response format")

\* q is p without the schema enforcement: same model, temperature, messages
SameButEnforcement(p, q) ==
    /\ "response_format" \in DOMAIN p
    /\ "response_format" \notin DOMAIN q
    /\ q.model = p.model
    /\ q.temperature = p.temperature
    /\ q.messages = p.messages

\* the handler ended by throwing the "Groq analysis failed" error of r
FailedWith(r) ==
    /\ an.pc = "threw"
    /\ DOMAIN an.result = {"code", "message"}
    /\ an.result.code = "INTERNAL_SERVER_ERROR"
    /\ Includes(an.result.message, "Groq analysis failed")
    /\ Includes(an.result.message, IntToString(r.status))
    /\ Includes(an.result.message, TextOf(r.body))

C5_OtherFailuresTerminal ==
    /\ Len(requests) <= 2
    /\ Len(received) <= Len(requests)
    /\ (Len(received) >= 1 /\ ~received[1].ok
            /\ ~UnsupportedFormatRejection(received[1])) =>
          /\ Len(requests) = 1
          /\ Len(received) = 1
          /\ FailedWith(received[1])
    /\ (Len(received) = 2 /\ ~received[2].ok) =>
          /\ Len(requests) = 2
          /\ FailedWith(received[2])

\* the fallback request itself was answered with a failure
C5_Witness ==
    /\ Len(received) = 2
    /\ ~received[2].ok
    /\ received[2].status # received[1].status
    /\ an.pc = "threw"

\* ------------------------------------------------------------------------
\* Properties of the validation of the analysis document (SpecValidate)
\* ------------------------------------------------------------------------
\* the analysis returned an AnalysisResult
Validated == an.pc = "returned"

\* validation of a parsed document failed
ValidationFailed == an.pc = "threw" /\ an.parsed # Undefined

\* the entries of the parsed document and of the result
ParsedEntries == Get(an.parsed, "models").v
ResultEntries == Get(an.result, "models").v

\* the enumerated members: <<key, label set, default>>
EnumFields ==
    { <<"stanceLabel", Range(stanceLabels), "neutral">>,
      <<"stanceStrength", Range(stanceStrengthLabels), "moderate">>,
      <<"directness", Range(directnessLabels), "answers">>,
      <<"policyLeaning", Range(policyLeaningLabels), "not_classifiable">>,
      <<"neutrality", Range(neutralityLabels), "neutral">> }

WithoutEnums(e) ==
    IF IsPlainObject(e)
    THEN Obj(SelectSeq(e.v, LAMBDA m : m[1] \notin Range(EnumKeys)))
    ELSE e

EntriesWithoutEnums(doc) ==
    IF IsArray(Get(doc, "models"))
    THEN SetKey(doc, "models",
            Arr([i \in DOMAIN Get(doc, "models").v |->
                    WithoutEnums(Get(doc, "models").v[i])]))
    ELSE doc

\* the document is well-formed but for the enumerated members of its entries
OnlyEnumsOff(doc) ==
    \E n \in 1..MaxEntries : EntriesWithoutEnums(doc) = EntriesWithoutEnums(BaseDoc(n))

\* C6: in every returned result each of stanceLabel, stanceStrength,
\* directness, policyLeaning and neutrality of every entry is a member of
\* its label set; a value outside the set (unknown, malformed or missing)
\* becomes the default neutral, moderate, answers, not_classifiable,
\* neutral, and never makes the call fail.
C6_EnumFieldsResolve ==
    /\ Validated =>
          \A k \in DOMAIN ResultEntries : \A f \in EnumFields :
              /\ IsString(Get(ResultEntries[k], f[1]))
              /\ Get(ResultEntries[k], f[1]).v \in f[2]
              /\ Get(ResultEntries[k], f[1]) =
                    IF /\ IsString(Get(ParsedEntries[k], f[1]))
                       /\ Get(ParsedEntries[k], f[1]).v \in f[2]
                    THEN Get(ParsedEntries[k], f[1])
                    ELSE Str(f[3])
    /\ ValidationFailed => ~OnlyEnumsOff(an.parsed)

\* a returned result whose entry had stanceLabel "unknown_value" and a
\* missing directness
C6_Witness ==
    /\ Validated
    /\ \E k \in DOMAIN ResultEntries :
          /\ Get(ParsedEntries[k], "stanceLabel") = Str("unknown_value")
          /\ Get(ResultEntries[k], "stanceLabel") = Str("neutral")
          /\ ~HasKey(ParsedEntries[k], "directness")
          /\ Get(ResultEntries[k], "directness") = Str("answers")

\* C7 as stated: the only condition that makes validation fail is that
\* models is not a non-empty sequence; whatever the entries' members and the
\* other top-level members hold, validation succeeds.
C7_OnlyEmptyModelsFails ==
    ValidationFailed =>
        ~(IsArray(Get(an.parsed, "models")) /\ Len(Get(an.parsed, "models").v) >= 1)

AbsentOrString(x) == x = Undefined \/ IsString(x)

\* a notes value the schema admits: absent, a string, an array of strings,
\* an object
NotesAdmitted(x) ==
    \/ x = Undefined
    \/ IsString(x)
    \/ IsArray(x) /\ \A i \in DOMAIN x.v : IsString(x.v[i])
    \/ IsPlainObject(x)

\* the members that have no default
RequiredMembersHold(doc) ==
    /\ IsPlainObject(doc)
    /\ AbsentOrString(Get(doc, "questionSummary"))
    /\ AbsentOrString(Get(doc, "overallSummary"))
    /\ IsArray(Get(doc, "models"))
    /\ Len(Get(doc, "models").v) >= 1
    /\ \A k \in DOMAIN Get(doc, "models").v :
          /\ IsPlainObject(Get(doc, "models").v[k])
          /\ IsString(Get(Get(doc, "models").v[k], "modelId"))
          /\ AbsentOrString(Get(Get(doc, "models").v[k], "provider"))
          /\ NotesAdmitted(Get(Get(doc, "models").v[k], "notes"))

\* a present member that is not a string became the empty string
EmptyStringFor(given, kept) ==
    (given # Undefined /\ ~IsString(given)) => kept = Str("")

\* a present member that is not an array came back as the empty array
EmptyArrayFor(given, kept) ==
    (given # Undefined /\ ~IsArray(given)) => kept = Arr(<<>>)

\* C7 as amended: validation fails exactly when models is not a non-empty
\* sequence, an entry is not an object, an entry's modelId is not a string,
\* or provider, notes, questionSummary or overallSummary is present with a
\* value its type does not admit; otherwise it succeeds, and a present
\* malformed modelName, neutralityExplanation, valueEmphasis or
\* comparisonHighlights is replaced by its default.
C7_FailsOnRequiredMembersOnly ==
    /\ (Validated \/ ValidationFailed) => (Validated <=> RequiredMembersHold(an.parsed))
    /\ Validated =>
          /\ EmptyArrayFor(Get(an.parsed, "comparisonHighlights"),
                           Get(an.result, "comparisonHighlights"))
          /\ \A k \in DOMAIN ResultEntries :
                /\ Get(ResultEntries[k], "modelId") = Get(ParsedEntries[k], "modelId")
                /\ EmptyStringFor(Get(ParsedEntries[k], "modelName"),
                                  Get(ResultEntries[k], "modelName"))
                /\ EmptyStringFor(Get(ParsedEntries[k], "neutralityExplanation"),
                                  Get(ResultEntries[k], "neutralityExplanation"))
                /\ EmptyArrayFor(Get(ParsedEntries[k], "valueEmphasis"),
                                 Get(ResultEntries[k], "valueEmphasis"))

\* validation failed on a document whose models is a non-empty sequence of
\* objects with their modelId, because an entry's notes is null
C7_Witness ==
    /\ ValidationFailed
    /\ IsArray(Get(an.parsed, "models"))
    /\ Len(Get(an.parsed, "models").v) >= 1
    /\ \A k \in DOMAIN ParsedEntries : IsString(Get(ParsedEntries[k], "modelId"))
    /\ \E k \in DOMAIN ParsedEntries : Get(ParsedEntries[k], "notes") = Null

\* an integer score within the bounds
IsScore(x) ==
    /\ IsInteger(x)
    /\ x.v[1] >= MinScore * x.v[2]
    /\ x.v[1] <= MaxScore * x.v[2]

TraitKeys == Range(neutralityTraitKeys)

KeysOf(o) == { o.v[i][1] : i \in DOMAIN o.v }

\* a traitScores object with exactly the key missing, the other four valid
OneKeyMissing(ts, key) ==
    /\ IsPlainObject(ts)
    /\ KeysOf(ts) = TraitKeys \ {key}
    /\ \A other \in TraitKeys \ {key} : IsScore(Get(ts, other))

\* a traitScores object with the five keys, all valid
AllKeysValid(ts) ==
    /\ IsPlainObject(ts)
    /\ KeysOf(ts) = TraitKeys
    /\ \A key \in TraitKeys : IsScore(Get(ts, key))

C9_TraitScoresRoundTrip ==
    Validated =>
        \A k \in DOMAIN ResultEntries :
            AllKeysValid(Get(ParsedEntries[k], "traitScores")) =>
                /\ IsPlainObject(Get(ResultEntries[k], "traitScores"))
                /\ Range(Get(ResultEntries[k], "traitScores").v) =
                      Range(Get(ParsedEntries[k], "traitScores").v)

\* a returned result for an entry whose scores include both ends of the range
C9_Witness ==
    /\ Validated
    /\ \E k \in DOMAIN ResultEntries :
          /\ AllKeysValid(Get(ParsedEntries[k], "traitScores"))
          /\ Get(Get(ParsedEntries[k], "traitScores"), "symmetry") = Num(0)
          /\ Get(Get(ResultEntries[k], "traitScores"), "symmetry") = Num(0)
          /\ Get(Get(ResultEntries[k], "traitScores"), "response_willingness") = Num(100)

\* C10: in every returned result each entry's traitScores has the five
\* keys, each an integer in [0,100], whatever the back-end returned for
\* traitScores or for one key.
C10_TraitScoresAreIntegers ==
    Validated =>
        \A k \in DOMAIN ResultEntries :
            /\ IsPlainObject(Get(ResultEntries[k], "traitScores"))
            /\ KeysOf(Get(ResultEntries[k], "traitScores")) = TraitKeys
            /\ \A key \in TraitKeys : IsScore(Get(Get(ResultEntries[k], "traitScores"), key))

\* the handler threw the schema-mismatch error and returned nothing
SchemaMismatch ==
    /\ an.pc = "threw"
    /\ DOMAIN an.result = {"code", "message"}
    /\ an.result.code = "INTERNAL_SERVER_ERROR"
    /\ Includes(an.result.message, "Groq analysis did not match schema")

\* C11: when the JSON of the back-end has a models array with zero entries,
\* or no models sequence at all, the call fails with the schema-mismatch
\* error and returns no result.
C11_EmptyModelsFails ==
    ((Validated \/ ValidationFailed)
        /\ (~IsArray(Get(an.parsed, "models")) \/ Get(an.parsed, "models").v = <<>>))
    => SchemaMismatch

\* the back-end returned an otherwise well-formed document with models: []
C11_Witness ==
    /\ SchemaMismatch
    /\ Get(an.parsed, "models") = Arr(<<>>)
    /\ IsString(Get(an.parsed, "questionSummary"))
    /\ IsString(Get(an.parsed, "overallSummary"))

\* ------------------------------------------------------------------------
\* Properties of the fan-out: order and single invocation
\* ------------------------------------------------------------------------
\* the ids of a valid input in the order sent (the registry when absent)
RequestedSeq(input) ==
    IF input.models = Undefined THEN MODEL_IDS
    ELSE [i \in DOMAIN input.models.v |-> input.models.v[i].v]

\* the distinct elements of s in order of first occurrence
RECURSIVE FirstOccurrences(_)
FirstOccurrences(s) ==
    IF s = <<>> THEN <<>>
    ELSE <<Head(s)>> \o FirstOccurrences(SelectSeq(Tail(s), LAMBDA x : x # Head(s)))

\* C12: the responses are ordered like the input after deduplication: the
\* i-th result belongs to the i-th distinct id in order of first occurrence
\* and carries what that id's adapter did, in whatever order the adapter
\* calls settled; a duplicated id causes exactly one adapter invocation.
C12_InputOrderKept ==
    /\ rnt.pc \in {"awaiting", "returned"} =>
          \A id \in Range(RequestedSeq(rnt.input)) :
              Cardinality({ i \in DOMAIN tasks : tasks[i].modelId = id }) = 1
    /\ rnt.pc = "returned" =>
          /\ Len(rnt.result.responses) = Len(FirstOccurrences(RequestedSeq(rnt.input)))
          /\ \A j \in DOMAIN rnt.result.responses :
                /\ rnt.result.responses[j].modelId =
                        FirstOccurrences(RequestedSeq(rnt.input))[j]
                /\ tasks[j].modelId = rnt.result.responses[j].modelId
                /\ HasError(rnt.result.responses[j]) <=> tasks[j].outcome.kind = "reject"

\* a batch returned for an input that repeats its first id after another
\* id, out of registry order; the second adapter threw
C12_Witness ==
    /\ rnt.pc = "returned"
    /\ rnt.input.models # Undefined
    /\ Len(rnt.input.models.v) = 3
    /\ rnt.input.models.v[1] = rnt.input.models.v[3]
    /\ rnt.input.models.v[1] = Str("gpt-5")
    /\ rnt.input.models.v[2] = Str("gemini-flash")
    /\ Len(rnt.result.responses) = 2
    /\ rnt.result.responses[1].modelId = "gpt-5"
    /\ HasError(rnt.result.responses[2])
    /\ ~HasError(rnt.result.responses[1])

\* ------------------------------------------------------------------------
\* Properties of the credential checks and of the readiness probe
\* (SpecServer)
\* ------------------------------------------------------------------------
\* the configuration error for the credential of that name
ConfigurationError(result, name) ==
    /\ DOMAIN result = {"code", "message"}
    /\ result.code = "INTERNAL_SERVER_ERROR"
    /\ result.message = name \o " is not configured on the server"

\* C13: without REPLICATE_API_KEY, runNeutralityTest and runNeutralityModel
\* fail before any adapter is invoked; without GROQ_API_KEY, analyzeResponses
\* fails before any request is sent; a call with a valid input fails with
\* the same kind of error on both paths (same code, message naming the
\* credential).
C13_MissingCredentialFailsFirst ==
    /\ ~env.REPLICATE_API_KEY =>
          /\ rnt.pc \in {"idle", "threw"}
          /\ tasks = <<>>
          /\ (rnt.pc = "threw" /\ RntInputValid(rnt.input)) =>
                ConfigurationError(rnt.result, "REPLICATE_API_KEY")
          /\ rnm.pc \in {"idle", "threw"}
          /\ rnm.runs = 0
          /\ rnm.outcome = Pending
          /\ (rnm.pc = "threw" /\ RnmInputValid(rnm.input)) =>
                ConfigurationError(rnm.result, "REPLICATE_API_KEY")
    /\ ~env.GROQ_API_KEY =>
          /\ an.pc \in {"idle", "threw"}
          /\ requests = <<>>
          /\ received = <<>>
          /\ (an.pc = "threw" /\ AnInputValid(an.input)) =>
                ConfigurationError(an.result, "GROQ_API_KEY")

\* with neither credential, the three mutations were each called with a
\* valid input and each threw
C13_Witness ==
    /\ ~env.REPLICATE_API_KEY
    /\ ~env.GROQ_API_KEY
    /\ rnt.pc = "threw" /\ RntInputValid(rnt.input)
    /\ rnm.pc = "threw" /\ RnmInputValid(rnm.input)
    /\ an.pc = "threw" /\ AnInputValid(an.input)
    /\ rnt.result.code = an.result.code
    /\ rnm.result = rnt.result

\* C14: without the primary credential llmStatus returns ready=false with a
\* non-null reason and makes no outbound call to the provider.
C14_ProbeWithoutCredential ==
    ~env.REPLICATE_API_KEY =>
        /\ probe.checks = 0
        /\ probe.pc \in {"idle", "returned"}
        /\ probe.outcome = Pending
        /\ probe.pc = "returned" =>
              /\ probe.result.ready = FALSE
              /\ probe.result.reason # Null
              /\ IsString(probe.result.reason)
              /\ Includes(probe.result.reason.v, "REPLICATE_API_KEY")

\* the probe has answered without the credential
C14_Witness ==
    /\ ~env.REPLICATE_API_KEY
    /\ probe.pc = "returned"
    /\ probe.result.ready = FALSE
    /\ probe.checks = 0

\* C15: with the primary credential llmStatus makes exactly one existence
\* check and never throws: ready=true with no reason when the check
\* succeeds, ready=false with the error's message as reason when it fails,
\* or the fixed text when the thrown value is not an Error.
C15_ProbeWithCredential ==
    env.REPLICATE_API_KEY =>
        /\ probe.pc \in {"idle", "checking", "returned"}
        /\ probe.checks = IF probe.pc = "idle" THEN 0 ELSE 1
        /\ probe.pc = "returned" =>
              /\ probe.outcome.kind \in {"resolve", "reject"}
              /\ probe.outcome.kind = "resolve" =>
                    probe.result = [ready |-> TRUE, reason |-> Null]
              /\ (probe.outcome.kind = "reject" /\ probe.outcome.v.t = "Error") =>
                    probe.result = [ready |-> FALSE, reason |-> Str(probe.outcome.v.v)]
              /\ (probe.outcome.kind = "reject" /\ probe.outcome.v.t # "Error") =>
                    probe.result = [ready |-> FALSE,
                                    reason |-> Str("Unable to reach Replicate models")]

\* the probe has answered after a check that threw a value that is no Error
C15_Witness ==
    /\ env.REPLICATE_API_KEY
    /\ probe.pc = "returned"
    /\ probe.checks = 1
    /\ probe.outcome = Reject(Str("boom"))
    /\ probe.result.ready = FALSE
    /\ probe.result.reason = Str("Unable to reach Replicate models")

\* ------------------------------------------------------------------------
\* Properties of normalizeReplicateOutput and runModel (SpecModel)
\* ------------------------------------------------------------------------
\* the adapter of the runNeutralityModel call returned, resp. threw
AdapterReturned == rnm.pc = "returned" /\ rnm.outcome.kind = "resolve"
AdapterThrew == rnm.pc \in {"returned", "threw"} /\ rnm.outcome.kind = "reject"

\* the elements of an array one after the other, no separator
RECURSIVE Concatenation(_)
Concatenation(a) ==
    IF a = <<>> THEN ""
    ELSE (IF Head(a).t \in {"null", "undefined"} THEN "" ELSE JSString(Head(a)))
            \o Concatenation(Tail(a))

\* the five cases
NormalizedAs(x) ==
    CASE x.t \in {"null", "undefined"} -> ""
      [] x.t = "arr" -> Concatenation(x.v)
      [] x.t = "str" -> x.v
      [] x.t = "obj" -> JSONstringify(x)
      [] OTHER -> JSString(x)

\* C16: normalizeReplicateOutput maps every provider output to a string by
\* one of five cases (null/undefined, array, string, other object, anything
\* else); null, ["a","b"], "c", {x:1}, 42 give "", "ab", "c", '{"x":1}',
\* "42"; applied to its own output it returns that output unchanged.
C16_NormalizeTotalIdempotent ==
    AdapterReturned =>
        /\ rnm.result.output \in STRING
        /\ rnm.result.output = NormalizedAs(rnm.outcome.v)
        /\ rnm.outcome.v = Null => rnm.result.output = ""
        /\ rnm.outcome.v = Arr(<<Str("a"), Str("b")>>) => rnm.result.output = "ab"
        /\ rnm.outcome.v = Str("c") => rnm.result.output = "c"
        /\ rnm.outcome.v = Obj(<< <<"x", Num(1)>> >>) => rnm.result.output = "{\"x\":1}"
        /\ rnm.outcome.v = Num(42) => rnm.result.output = "42"
        /\ normalizeReplicateOutput(Str(rnm.result.output)) = rnm.result.output

\* the adapter resolved to the chunks "a", "b", "c"
C16_Witness ==
    /\ AdapterReturned
    /\ rnm.outcome.v = Arr(<<Str("a"), Str("b"), Str("c")>>)
    /\ rnm.result.output = "abc"

\* C17 as stated: for every ModelResult exactly one of the two holds: its
\* output is non-empty, or it has an error; never a non-empty output with an
\* error, never an empty output without an error.
C17_ExactlyOneOfOutputAndError ==
    rnm.pc = "returned" =>
        (rnm.result.output # "") # HasError(rnm.result)

\* C17 as amended: a ModelResult with an error has the empty output, so a
\* non-empty output never comes with an error; a ModelResult without an
\* error carries the normalized adapter output, which is empty when the
\* adapter returned nothing (null, undefined, "", an array of empty chunks).
C17_ErrorImpliesEmptyOutput ==
    rnm.pc = "returned" =>
        /\ HasError(rnm.result) <=> AdapterThrew
        /\ HasError(rnm.result) => rnm.result.output = ""
        /\ ~HasError(rnm.result) => rnm.result.output = NormalizedAs(rnm.outcome.v)
        /\ (~HasError(rnm.result) /\ rnm.result.output = "") =>
                \/ rnm.outcome.v \in {Null, Undefined, Str("")}
                \/ /\ IsArray(rnm.outcome.v)
                   /\ \A i \in DOMAIN rnm.outcome.v.v :
                        rnm.outcome.v.v[i] \in {Null, Undefined, Str("")}

\* the adapter returned null: an empty output and no error
C17_Witness ==
    /\ AdapterReturned
    /\ rnm.outcome.v = Null
    /\ rnm.result.output = ""
    /\ ~HasError(rnm.result)

\* C18: whenever an adapter throws, the error of the ModelResult is a
\* non-empty message, also when the thrown value carries none (an Error
\* with an empty message, a value that is not an Error).
C18_ErrorMessageNonEmpty ==
    AdapterThrew =>
        /\ rnm.pc = "returned"
        /\ HasError(rnm.result)
        /\ rnm.result.error # ""

\* ------------------------------------------------------------------------
\* Properties of the response parsing (SpecAnalyze)
\* ------------------------------------------------------------------------
\* the handler has ended on an OK response whose body is a JSON completion
EndedOnCompletion ==
    /\ an.pc \in {"returned", "threw"}
    /\ received # <<>>
    /\ received[Len(received)].ok
    /\ JSONparse(received[Len(received)].body).ok

\* the content of that completion
LastContent == CompletionContent(JSONparse(received[Len(received)].body).v)

\* C19: response-shape errors are terminal: when the completion extracted
\* from an OK response is not a string, or is a string that does not parse
\* as JSON, the call fails (the parse failure carrying the parse error's
\* text), no validation result is returned and no further request is sent.
C19_ShapeErrorsTerminal ==
    EndedOnCompletion =>
        /\ ~IsStringValue(LastContent) =>
              /\ an.pc = "threw"
              /\ an.result = TRPCError("INTERNAL_SERVER_ERROR",
                                       "Groq returned an unexpected response format")
              /\ an.parsed = Undefined
              /\ Len(requests) = Len(received)
        /\ LastContent.t = "str" =>
              /\ an.pc = "threw"
              /\ DOMAIN an.result = {"code", "message"}
              /\ an.result.code = "INTERNAL_SERVER_ERROR"
              /\ Includes(an.result.message, "Failed to parse Groq analysis JSON")
              /\ Includes(an.result.message, SyntaxErrorMessage(LastContent.v))
              /\ an.parsed = Undefined
              /\ Len(requests) = Len(received)

\* the fallback's completion was prose, not JSON
C19_Witness ==
    /\ EndedOnCompletion
    /\ Len(received) = 2
    /\ LastContent = Str("Sure! Here is the analysis")
    /\ an.pc = "threw"
    /\ Includes(an.result.message, "Unexpected token 'S'")

\* ------------------------------------------------------------------------
\* Properties of the notes member (SpecValidate)
\* ------------------------------------------------------------------------
\* the strings of an array one after the other with the separator between
RECURSIVE Joined(_, _)
Joined(a, sep) ==
    IF a = <<>> THEN ""
    ELSE IF Len(a) = 1 THEN a[1].v
    ELSE Joined(SubSeq(a, 1, Len(a) - 1), sep) \o sep \o a[Len(a)].v

\* C20: the notes of an entry are normalized to one string: a string is
\* kept, an array of strings is joined with the separator in order, an
\* object is serialized to its JSON text; an absent notes stays absent.
C20_NotesNormalized ==
    Validated =>
        \A k \in DOMAIN ResultEntries :
            /\ ~HasKey(ParsedEntries[k], "notes") => ~HasKey(ResultEntries[k], "notes")
            /\ IsString(Get(ParsedEntries[k], "notes")) =>
                  Get(ResultEntries[k], "notes") = Get(ParsedEntries[k], "notes")
            /\ IsArray(Get(ParsedEntries[k], "notes")) =>
                  Get(ResultEntries[k], "notes") =
                      Str(Joined(Get(ParsedEntries[k], "notes").v, NotesSeparator))
            /\ IsPlainObject(Get(ParsedEntries[k], "notes")) =>
                  Get(ResultEntries[k], "notes") =
                      Str(JSONstringify(Get(ParsedEntries[k], "notes")))
            /\ Get(ParsedEntries[k], "notes") = Obj(<< <<"k", Num(1)>> >>) =>
                  Get(ResultEntries[k], "notes") = Str("{\"k\":1}")
            /\ HasKey(ParsedEntries[k], "notes") => IsString(Get(ResultEntries[k], "notes"))

\* a result with the notes of one entry joined from two strings, and the
\* notes of another serialized from an object
C20_Witness ==
    /\ Validated
    /\ \E k \in DOMAIN ResultEntries :
          /\ IsArray(Get(ParsedEntries[k], "notes"))
          /\ Len(Get(ParsedEntries[k], "notes").v) = 2
          /\ Get(ResultEntries[k], "notes") =
                Str("Highlights pros" \o NotesSeparator \o "omits counterpoints")
    /\ \E k \in DOMAIN ResultEntries :
          /\ Get(ParsedEntries[k], "notes") = Obj(<< <<"k", Num(1)>> >>)
          /\ Get(ResultEntries[k], "notes") = Str("{\"k\":1}")

\* ------------------------------------------------------------------------
\* Properties of the optional members with a fallback (SpecValidate)
\* ------------------------------------------------------------------------
StringArray(x) == IsArray(x) /\ \A i \in DOMAIN x.v : IsString(x.v[i])
ValueAxisArray(x) == StringArray(x) /\ \A i \in DOMAIN x.v : x.v[i].v \in Range(valueAxes)

\* C21 as stated: an absent modelName, an absent or invalid valueEmphasis
\* and an absent or invalid comparisonHighlights come out as the empty
\* string or the empty array; none of them is left undefined.
C21_AbsentFieldsDefaulted ==
    Validated =>
        /\ ~StringArray(Get(an.parsed, "comparisonHighlights")) =>
              Get(an.result, "comparisonHighlights") = Arr(<<>>)
        /\ \A k \in DOMAIN ResultEntries :
              /\ ~HasKey(ParsedEntries[k], "modelName") =>
                    Get(ResultEntries[k], "modelName") = Str("")
              /\ ~ValueAxisArray(Get(ParsedEntries[k], "valueEmphasis")) =>
                    Get(ResultEntries[k], "valueEmphasis") = Arr(<<>>)

\* C21 amended: a modelName, valueEmphasis or comparisonHighlights that is
\* present but invalid comes out as the empty string or the empty array, a
\* valid one is kept, and an absent one stays absent in the result.
C21_InvalidDefaultedAbsentKept ==
    Validated =>
        /\ LET p == Get(an.parsed, "comparisonHighlights")
               r == Get(an.result, "comparisonHighlights")
           IN  /\ HasKey(an.parsed, "comparisonHighlights") /\ ~StringArray(p) => r = Arr(<<>>)
               /\ StringArray(p) => r = p
               /\ ~HasKey(an.parsed, "comparisonHighlights") =>
                     ~HasKey(an.result, "comparisonHighlights")
        /\ \A k \in DOMAIN ResultEntries :
              LET pe == ParsedEntries[k]
                  re == ResultEntries[k]
              IN  /\ HasKey(pe, "modelName") /\ ~IsString(Get(pe, "modelName")) =>
                        Get(re, "modelName") = Str("")
                  /\ IsString(Get(pe, "modelName")) => Get(re, "modelName") = Get(pe, "modelName")
                  /\ ~HasKey(pe, "modelName") => ~HasKey(re, "modelName")
                  /\ HasKey(pe, "valueEmphasis") /\ ~ValueAxisArray(Get(pe, "valueEmphasis")) =>
                        Get(re, "valueEmphasis") = Arr(<<>>)
                  /\ ValueAxisArray(Get(pe, "valueEmphasis")) =>
                        Get(re, "valueEmphasis") = Get(pe, "valueEmphasis")
                  /\ ~HasKey(pe, "valueEmphasis") => ~HasKey(re, "valueEmphasis")

\* a result whose last entry lost an absent modelName and got the empty
\* array for a valueEmphasis that was a number
C21_Witness ==
    /\ Validated
    /\ \E k \in DOMAIN ResultEntries :
          /\ ~HasKey(ParsedEntries[k], "modelName")
          /\ ~HasKey(ResultEntries[k], "modelName")
          /\ Get(ParsedEntries[k], "valueEmphasis") = Num(5)
          /\ Get(ResultEntries[k], "valueEmphasis") = Arr(<<>>)

\* ------------------------------------------------------------------------
\* The web client: the handlers of HomeComponent
\* ------------------------------------------------------------------------
ServerUnchanged == UNCHANGED <<env, rnt, tasks, batch, an, requests, received, rnm, probe>>

\* the readiness test without the test: every data counts as ready
llmReadyAlways(data) == TRUE

\* llmStatus.data?.ready, read by handleSubmit and by isSendDisabled
llmReady(data) == data # Undefined /\ data.ready

\* the Send button is disabled
isSendDisabled ==
    \/ Trim(ui.prompt) = ""
    \/ Len(ui.selectedModels) = 0
    \/ ui.isSending
    \/ ~llmReady(ui.llmStatus)

\* the textarea's onChange, the clear button and the topic buttons
setPrompt(value) ==
    /\ value # ui.prompt
    /\ ui' = [ui EXCEPT !.prompt = value]
    /\ UNCHANGED submits
    /\ ServerUnchanged

\* the llmStatus query delivers data
llmStatusData(data) ==
    /\ data # ui.llmStatus
    /\ ui' = [ui EXCEPT !.llmStatus = data]
    /\ UNCHANGED submits
    /\ ServerUnchanged

\* the map restricted to some model ids
Restrict(responses, ids) == [id \in DOMAIN responses \cap ids |-> responses[id]]

toggleModel(id) ==
    /\ IF id \in Range(ui.selectedModels)
       THEN ui' = [ui EXCEPT
                     !.selectedModels = SelectSeq(@, LAMBDA modelId : modelId # id),
                     !.responses = Restrict(@, DOMAIN @ \ {id})]
       ELSE IF ui.comparisonMode = "side-by-side" /\ Len(ui.selectedModels) >= 2
       THEN ui' = [ui EXCEPT !.toast = Str("Side-by-side mode is limited to two models.")]
       ELSE ui' = [ui EXCEPT !.selectedModels = Append(@, id)]
    /\ UNCHANGED submits
    /\ ServerUnchanged

\* the comparison buttons, with the effect that follows the render: in
\* side-by-side mode the selection and the responses keep two models
setComparisonMode(mode) ==
    /\ mode # ui.comparisonMode
    /\ IF mode = "side-by-side" /\ Len(ui.selectedModels) > 2
       THEN LET trimmed == SubSeq(ui.selectedModels, 1, 2)
            IN  ui' = [ui EXCEPT !.comparisonMode = mode,
                                 !.selectedModels = trimmed,
                                 !.responses = Restrict(@, Range(trimmed))]
       ELSE ui' = [ui EXCEPT !.comparisonMode = mode]
    /\ UNCHANGED submits
    /\ ServerUnchanged

\* initialState with idle slots instead of loading ones
initialStateIdle(selectedModels) ==
    [modelId \in Range(selectedModels) |->
        [modelId |-> modelId, modelName |-> MODEL_LOOKUP[modelId].name,
         provider |-> MODEL_LOOKUP[modelId].provider, output |-> "",
         status |-> "idle", error |-> Undefined]]

\* initialState: one loading slot per selected model
initialState(selectedModels) ==
    [modelId \in Range(selectedModels) |->
        [modelId |-> modelId, modelName |-> MODEL_LOOKUP[modelId].name,
         provider |-> MODEL_LOOKUP[modelId].provider, output |-> "",
         status |-> "loading", error |-> Undefined]]

\* an invocation of handleSubmit that has returned
Returned(calls) ==
    [pc |-> "returned", question |-> "", models |-> <<>>, aggregated |-> NoResponses,
     pending |-> {}, request |-> Undefined, calls |-> calls]

\* the form's onSubmit up to its first await: the early returns, the reset
\* of the analysis state, the loading slots, and one runNeutralityModel
\* call per selected model (Stance Mode off: the prompt sent is trimmed)
handleSubmit ==
    LET trimmed == Trim(ui.prompt)
    IN  /\ trimmed # ""
        /\ Len(ui.selectedModels) # 0
        /\ IF ~llmReady(ui.llmStatus)
           THEN /\ ui' = [ui EXCEPT !.toast =
                            IF ui.llmStatus = Undefined \/ ui.llmStatus.reason = Null
                            THEN Str("LLM service is currently unavailable. Please try again later.")
                            ELSE ui.llmStatus.reason]
                /\ UNCHANGED submits
           ELSE /\ Len(submits) < MaxSubmits
                /\ ui' = [ui EXCEPT !.analysis = Null, !.analysisError = Null,
                                    !.isAnalyzing = FALSE,
                                    !.responses = initialState(ui.selectedModels),
                                    !.isSending = TRUE]
                /\ submits' = Append(submits,
                      [pc |-> "fanout", question |-> trimmed,
                       models |-> ui.selectedModels,
                       aggregated |-> initialState(ui.selectedModels),
                       pending |-> Range(ui.selectedModels),
                       request |-> Undefined, calls |-> 0])
        /\ ServerUnchanged

\* the ResponseState written for a call that settled: resolved from the
\* result of runNeutralityModel, failed from a rejection
resolvedState(modelId, outcome) ==
    LET meta == MODEL_LOOKUP[modelId]
    IN  IF outcome.kind = "resolve"
        THEN LET result == outcome.v
                 errorMessage == IF "error" \in DOMAIN result
                                 THEN Str(result.error) ELSE Undefined
             IN  [modelId |-> result.modelId, modelName |-> result.modelName,
                  provider |-> result.provider, output |-> result.output,
                  status |-> IF errorMessage # Undefined /\ errorMessage.v # ""
                             THEN "error" ELSE "success",
                  error |-> errorMessage]
        ELSE [modelId |-> modelId, modelName |-> meta.name, provider |-> meta.provider,
              output |-> "", status |-> "error",
              error |-> Str(IF outcome.v.t = "Error" THEN outcome.v.v
                            ELSE "Failed to run neutrality test")]

\* the update that keeps the previous map: nothing is delivered on settle
withSlotDropped(previous, modelId, resolved) == previous

\* { ...previous, [modelId]: resolved }
withSlot(previous, modelId, resolved) ==
    [id \in DOMAIN previous \cup {modelId} |->
        IF id = modelId THEN resolved ELSE previous[id]]

\* successfulResponses without the trim: a blank output counts as an answer
successfulResponsesUntrimmed(aggregated, models) ==
    LET responseEntries == [i \in DOMAIN models |-> aggregated[models[i]]]
        successful == SelectSeq(responseEntries,
                          LAMBDA response : /\ response.status = "success"
                                            /\ Len(response.output) > 0)
    IN  [i \in DOMAIN successful |->
            [modelId |-> successful[i].modelId, modelName |-> successful[i].modelName,
             provider |-> successful[i].provider, output |-> successful[i].output]]

\* successfulResponses, mapped to the input of analyzeResponses: the values
\* of aggregated in key order
successfulResponses(aggregated, models) ==
    LET responseEntries == [i \in DOMAIN models |-> aggregated[models[i]]]
        successful == SelectSeq(responseEntries,
                          LAMBDA response : /\ response.status = "success"
                                            /\ Len(Trim(response.output)) > 0)
    IN  [i \in DOMAIN successful |->
            [modelId |-> successful[i].modelId, modelName |-> successful[i].modelName,
             provider |-> successful[i].provider, output |-> successful[i].output]]

\* the runNeutralityModel call of submit k for one model settles: its slot
\* is written; when it was the last call of the batch, handleSubmit goes on
\* after Promise.allSettled in the same task: isSending is reset, responses
\* is set to aggregated, and analyzeResponses is called if a response is
\* eligible
CallSettles(k, modelId, outcome) ==
    /\ submits[k].pc = "fanout"
    /\ modelId \in submits[k].pending
    /\ LET resolved == resolvedState(modelId, outcome)
           aggregated == [submits[k].aggregated EXCEPT ![modelId] = resolved]
           pending == submits[k].pending \ {modelId}
           toast == IF outcome.kind = "reject" THEN resolved.error ELSE ui.toast
           successful == successfulResponses(aggregated, submits[k].models)
       IN  IF pending # {}
           THEN /\ ui' = [ui EXCEPT !.responses = withSlot(@, modelId, resolved),
                                    !.toast = toast]
                /\ submits' = [submits EXCEPT ![k].aggregated = aggregated,
                                              ![k].pending = pending]
           ELSE IF Len(successful) = 0
           THEN /\ ui' = [ui EXCEPT !.responses = aggregated, !.toast = toast,
                                    !.isSending = FALSE]
                /\ submits' = [submits EXCEPT ![k] = Returned(0)]
           ELSE /\ ui' = [ui EXCEPT !.responses = aggregated, !.toast = toast,
                                    !.isSending = FALSE, !.isAnalyzing = TRUE]
                /\ submits' = [submits EXCEPT ![k] =
                      [pc |-> "analyzing", question |-> submits[k].question,
                       models |-> submits[k].models, aggregated |-> NoResponses,
                       pending |-> {},
                       request |-> [question |-> submits[k].question,
                                    responses |-> successful],
                       calls |-> 1]]
    /\ ServerUnchanged

\* the AnalysisResult the server returns for the request of submit k
AnalysisFor(k) == [t |-> "analysis", v |-> k]

\* the analyzeResponses call of submit k settles
AnalysisSettles(k, outcome) ==
    /\ submits[k].pc = "analyzing"
    /\ IF outcome.kind = "resolve"
       THEN ui' = [ui EXCEPT !.analysis = outcome.v, !.analysisError = Null,
                             !.isAnalyzing = FALSE]
       ELSE LET message == Str(IF outcome.v.t = "Error" THEN outcome.v.v
                               ELSE "Failed to analyze responses")
            IN  ui' = [ui EXCEPT !.analysisError = message, !.toast = message,
                                 !.isAnalyzing = FALSE]
    /\ submits' = [submits EXCEPT ![k] = Returned(1)]
    /\ ServerUnchanged

\* ------------------------------------------------------------------------
\* The web client's behaviours: what the user enters and what the server
\* answers
\* ------------------------------------------------------------------------
PromptInputs == {" Is X good? ", "   "}

\* the answer of llmStatus when replicate.models.get succeeds
LlmStatusReady == llmStatusResult(Resolve(Obj(<<>>))).v

\* what a runNeutralityModel call can settle with: the result of runModel,
\* or a rejection (the credential is missing on the server)
CallOutcomes(modelId) ==
    { runModel(modelId, o) :
        o \in {Resolve(Str("Yes.")), Resolve(Str("  ")), Reject(Err("timeout"))} }
    \cup { Reject(Err("REPLICATE_API_KEY is not configured on the server")) }

AnalysisOutcomes(k) ==
    { Resolve(AnalysisFor(k)), Reject(Err("Groq analysis did not match schema")) }

InitClient ==
    /\ env = [REPLICATE_API_KEY |-> TRUE, GROQ_API_KEY |-> TRUE,
              GROQ_ANALYSIS_MODEL |-> Undefined]
    /\ rnt = RntIdle
    /\ tasks = <<>>
    /\ batch = Pending
    /\ an = AnIdle
    /\ requests = <<>>
    /\ received = <<>>
    /\ rnm = RnmIdle
    /\ probe = ProbeIdle
    /\ ui = HomeComponent
    /\ submits = <<>>

\* the user types one question, toggles one model and switches the
\* comparison mode at any time; the form is submitted with the Send
\* button, which is enabled
NextClient ==
    \/ setPrompt(" Is X good? ")
    \/ llmStatusData(LlmStatusReady)
    \/ toggleModel("gpt-5")
    \/ \E mode \in {"multi", "side-by-side"} : setComparisonMode(mode)
    \/ ~isSendDisabled /\ handleSubmit
    \/ \E k \in DOMAIN submits :
          \E modelId \in submits[k].pending :
              \E outcome \in CallOutcomes(modelId) : CallSettles(k, modelId, outcome)
    \/ \E k \in DOMAIN submits :
          \E outcome \in AnalysisOutcomes(k) : AnalysisSettles(k, outcome)

SpecClient == InitClient /\ [][NextClient]_vars

\* ------------------------------------------------------------------------
\* Properties of the submit flow of the web client (SpecClient)
\* ------------------------------------------------------------------------
\* the slots of a ResponseMap that hold a successful, non-blank answer
Eligible(responses) ==
    { id \in DOMAIN responses :
        /\ responses[id].status = "success"
        /\ \E i \in 1..Len(responses[id].output) :
              ~IsSpace(SubSeq(responses[id].output, i, i)) }

\* submit k leaves its fan-out in this step
FanOutEnds(k) == submits[k].pc = "fanout" /\ submits'[k].pc # "fanout"

\* C22: handleSubmit calls analyzeResponses only after every call of its
\* batch has settled, at most once, with exactly the responses whose status
\* is success and whose output is not blank, and not at all when there is
\* no such response.
C22_AnalysisAfterFanOut ==
    /\ [](\A k \in DOMAIN submits :
            /\ submits[k].calls <= 1
            /\ submits[k].pc = "fanout" => submits[k].calls = 0
            /\ submits[k].calls = 0 => submits[k].request = Undefined)
    /\ [][\A k \in DOMAIN submits :
            /\ submits'[k].calls >= submits[k].calls
            /\ submits'[k].calls > submits[k].calls => FanOutEnds(k)
            /\ FanOutEnds(k) =>
                  /\ submits'[k].pending = {}
                  /\ DOMAIN ui'.responses = Range(submits[k].models)
                  /\ \A id \in DOMAIN ui'.responses : ui'.responses[id].status # "loading"
                  /\ IF Eligible(ui'.responses) = {}
                     THEN submits'[k].calls = 0 /\ submits'[k].pc = "returned"
                     ELSE /\ submits'[k].calls = 1
                          /\ submits'[k].request.question = submits[k].question
                          /\ LET sent == submits'[k].request.responses
                             IN  /\ { sent[i].modelId : i \in DOMAIN sent } =
                                        Eligible(ui'.responses)
                                 /\ \A i, j \in DOMAIN sent :
                                        sent[i].modelId = sent[j].modelId => i = j
                                 /\ \A i \in DOMAIN sent :
                                        sent[i].output = ui'.responses[sent[i].modelId].output
       ]_vars

\* a batch of three has settled with one answer, one blank answer and one
\* error, and the analysis was asked for the one answer
C22_Witness ==
    \E k \in DOMAIN submits :
        /\ submits[k].pc = "analyzing"
        /\ Len(submits[k].request.responses) = 1
        /\ submits[k].request.responses[1].output = "Yes."
        /\ \E id \in DOMAIN ui.responses :
              ui.responses[id].status = "success" /\ ui.responses[id].output = "  "
        /\ \E id \in DOMAIN ui.responses : ui.responses[id].status = "error"

\* the call of submit k for modelId settles in this step
Settles(k, modelId) ==
    /\ submits[k].pc = "fanout"
    /\ modelId \in submits[k].pending
    /\ IF submits'[k].pc = "fanout" THEN modelId \notin submits'[k].pending ELSE TRUE

Settled(response) == response.status \in {"success", "error"}

\* C23: each model's result is written to the responses state in the step
\* in which its own call settles, while the slots of the calls still in
\* flight stay loading; when the batch has settled, responses holds, for
\* each model selected at submit time, the result delivered for it.
C23_IncrementalDelivery ==
    /\ [](\A k \in DOMAIN submits :
            submits[k].pc = "fanout" =>
                \A id \in Range(submits[k].models) \ submits[k].pending :
                    /\ Settled(submits[k].aggregated[id])
                    /\ id \in DOMAIN ui.responses =>
                          ui.responses[id] = submits[k].aggregated[id])
    /\ [][\A k \in DOMAIN submits :
            submits[k].pc = "fanout" /\ submits'[k] # submits[k] =>
                \E modelId \in submits[k].pending :
                    /\ Settles(k, modelId)
                    /\ submits[k].pending \ {modelId} # {} =>
                          /\ submits'[k].pending = submits[k].pending \ {modelId}
                          /\ submits'[k].aggregated[modelId] = ui'.responses[modelId]
                    /\ modelId \in DOMAIN ui'.responses
                    /\ Settled(ui'.responses[modelId])
                    /\ \A id \in (submits[k].pending \ {modelId}) \cap DOMAIN ui.responses :
                          /\ id \in DOMAIN ui'.responses
                          /\ ui'.responses[id].status = "loading"
                    /\ FanOutEnds(k) =>
                          /\ submits[k].pending = {modelId}
                          /\ DOMAIN ui'.responses = Range(submits[k].models)
                          /\ \A id \in Range(submits[k].models) \ {modelId} :
                                ui'.responses[id] = submits[k].aggregated[id]
       ]_vars

\* one model's answer is shown while the two other calls are in flight
C23_Witness ==
    \E k \in DOMAIN submits :
        /\ submits[k].pc = "fanout"
        /\ ui.isSending
        /\ Cardinality(submits[k].pending) = 2
        /\ \E id \in DOMAIN ui.responses :
              ui.responses[id].status = "success" /\ ui.responses[id].output = "Yes."
        /\ \A id \in submits[k].pending :
              id \in DOMAIN ui.responses /\ ui.responses[id].status = "loading"

\* ------------------------------------------------------------------------
\* The submit handler next to the server: the llmStatus query feeds the
\* client's readiness, the submit event reaches handleSubmit whatever the
\* Send button shows, and the mutations are called by any caller
\* ------------------------------------------------------------------------
NextGate ==
    \/ llmStatusCall
    \/ \E o \in ModelsGetOutcomes : llmStatusSettle(o)
    \/ probe.pc = "returned" /\ llmStatusData(probe.result)
    \/ \E value \in PromptInputs : setPrompt(value)
    \/ handleSubmit
    \/ \E id \in {"claude-sonnet", "llama"} :
          RnmCall([prompt |-> " Is X good? ", modelId |-> id])
    \/ \E o \in ServerAdapterOutcomes : RnmSettle(o)
    \/ RntCall([prompt |-> " Is X good? ", models |-> Arr(<<Str("gpt-5")>>)])
    \/ \E i \in 1..Len(MODEL_IDS), o \in ServerAdapterOutcomes : AdapterSettle(i, o)
    \/ RntResume

\* the server starts with or without its credential, as in InitFanOut
SpecGate == InitFanOut /\ [][NextGate]_vars

\* the latest readiness result is missing or says not ready
NotReady == ui.llmStatus = Undefined \/ ui.llmStatus.ready = FALSE

\* C24: readiness is gated by the caller only. While the latest readiness
\* result is missing or not ready, handleSubmit dispatches no call and
\* leaves responses, analysis and isSending as they are; the server's
\* runNeutralityTest and runNeutralityModel make no readiness check: they
\* start their adapters whenever the input is valid and the credential is
\* configured.
C24_CallerGatesReadiness ==
    [][/\ NotReady =>
            /\ submits' = submits
            /\ ui'.responses = ui.responses
            /\ ui'.analysis = ui.analysis
            /\ ui'.isSending = ui.isSending
       /\ Len(submits') > Len(submits) => ui.llmStatus.ready = TRUE
       /\ rnm.pc = "idle" /\ rnm'.pc # "idle" =>
            /\ probe' = probe
            /\ rnm'.pc = "awaiting" <=>
                  RnmInputValid(rnm'.input) /\ env.REPLICATE_API_KEY
       /\ rnt.pc = "idle" /\ rnt'.pc # "idle" =>
            /\ probe' = probe
            /\ rnt'.pc = "awaiting" <=>
                  RntInputValid(rnt'.input) /\ env.REPLICATE_API_KEY
      ]_vars

\* handleSubmit has refused a prompt with the reason of the failed readiness
\* check and dispatched nothing, while the server runs an adapter for
\* another caller
C24_Witness ==
    /\ NotReady
    /\ Trim(ui.prompt) # ""
    /\ ui.toast = Str("Request failed with status 401")
    /\ submits = <<>>
    /\ ~ui.isSending
    /\ probe.pc = "returned"
    /\ probe.result.ready = FALSE
    /\ rnm.pc = "awaiting"
    /\ rnt.pc = "awaiting"

\* ------------------------------------------------------------------------
\* The prompt the server dispatches (SpecFanOut)
\* ------------------------------------------------------------------------
\* C25: every prompt handed to an adapter by runNeutralityTest or
\* runNeutralityModel has at least the 4 characters the input schema
\* enforces, and the prompt in the result of runNeutralityTest is the one
\* the adapters were given.
C25_DispatchedPromptValid ==
    /\ \A i \in DOMAIN tasks : Len(tasks[i].prompt) >= 4
    /\ rnm.pc \in {"awaiting", "returned"} => Len(rnm.prompt) >= 4
    /\ rnt.pc = "returned" =>
          \A i \in DOMAIN tasks : tasks[i].prompt = rnt.result.prompt

\* the slots of submit k whose value changes in this step
Written(k) ==
    { id \in Range(submits[k].models) :
        submits'[k].pc = "fanout" /\ submits'[k].aggregated[id] # submits[k].aggregated[id] }

\* C26: each model selected at submit time gets a slot with status loading;
\* the slot is written once, with a result of status success or error, in
\* the step in which that model's own call settles, and no step writes two
\* slots; a slot shown in responses changes only from loading to that
\* result; once the batch has settled no slot is loading.
C26_SlotWrittenOnce ==
    /\ [](\A k \in DOMAIN submits :
            submits[k].pc = "fanout" =>
                /\ DOMAIN submits[k].aggregated = Range(submits[k].models)
                /\ \A id \in Range(submits[k].models) :
                      /\ submits[k].aggregated[id].modelId = id
                      /\ id \in submits[k].pending <=>
                            submits[k].aggregated[id].status = "loading"
                      /\ id \notin submits[k].pending <=>
                            Settled(submits[k].aggregated[id]))
    /\ [][/\ Len(submits') > Len(submits) =>
               LET new == submits'[Len(submits')]
               IN  /\ new.pending = Range(ui.selectedModels)
                   /\ DOMAIN new.aggregated = Range(ui.selectedModels)
                   /\ ui'.responses = new.aggregated
                   /\ \A id \in DOMAIN new.aggregated :
                         new.aggregated[id].status = "loading"
          /\ \A k \in DOMAIN submits :
               submits[k].pc = "fanout" =>
                  /\ Cardinality(Written(k)) <= 1
                  /\ \A id \in Written(k) :
                        /\ submits[k].aggregated[id].status = "loading"
                        /\ Settled(submits'[k].aggregated[id])
                        /\ submits'[k].pending = submits[k].pending \ {id}
                  /\ \A id \in DOMAIN ui.responses \cap DOMAIN ui'.responses :
                        ui'.responses[id] # ui.responses[id] /\ Len(submits') = Len(submits) =>
                            /\ ui.responses[id].status = "loading"
                            /\ Settled(ui'.responses[id])
                            /\ ui'.responses[id].modelId = id
                            /\ id \in submits[k].pending
                            /\ IF submits'[k].pc = "fanout"
                               THEN id \notin submits'[k].pending
                               ELSE submits[k].pending = {id}
                  /\ FanOutEnds(k) =>
                        \A id \in DOMAIN ui'.responses : Settled(ui'.responses[id])
         ]_vars

\* a batch of three has settled: every slot holds a result, one of them an
\* error put there by a rejected call
C26_Witness ==
    /\ ~ui.isSending
    /\ \A k \in DOMAIN submits : submits[k].pc # "fanout"
    /\ DOMAIN ui.responses = { MODEL_CHOICES[i].id : i \in DOMAIN MODEL_CHOICES }
    /\ \A id \in DOMAIN ui.responses : Settled(ui.responses[id])
    /\ \E id \in DOMAIN ui.responses :
          ui.responses[id].error = Str("REPLICATE_API_KEY is not configured on the server")
    /\ \E id \in DOMAIN ui.responses : ui.responses[id].status = "success"

\* ------------------------------------------------------------------------
\* The two fan-outs when every call settles: runNeutralityTest on the
\* server and handleSubmit in the client, each with the calls it awaits.
\* The two share no state, so they are run one after the other.
\* ------------------------------------------------------------------------
SettlingOutcomes(modelId) ==
    { runModel(modelId, o) : o \in ServerAdapterOutcomes }
    \cup { Reject(Err("REPLICATE_API_KEY is not configured on the server")) }

NextSettling ==
    \/ RntCall([prompt |-> " Is X good? ",
                models |-> Arr(<<Str("gpt-5"), Str("gemini-flash")>>)])
    \/ \E i \in 1..Len(MODEL_IDS), o \in ServerAdapterOutcomes : AdapterSettle(i, o)
    \/ RntResume
    \/ /\ rnt.pc = "returned"
       /\ \/ setPrompt(" Is X good? ")
          \/ llmStatusData(LlmStatusReady)
          \/ ~isSendDisabled /\ handleSubmit
          \/ \E k \in DOMAIN submits :
                \E modelId \in submits[k].pending :
                    \E outcome \in SettlingOutcomes(modelId) :
                        CallSettles(k, modelId, outcome)
          \/ \E k \in DOMAIN submits :
                \E outcome \in AnalysisOutcomes(k) : AnalysisSettles(k, outcome)

\* every call in flight settles in the end, and a handler whose await is
\* over is resumed
SpecSettling ==
    /\ InitClient
    /\ [][NextSettling]_vars
    /\ WF_vars(\E i \in 1..Len(MODEL_IDS), o \in ServerAdapterOutcomes : AdapterSettle(i, o))
    /\ WF_vars(RntResume)
    /\ WF_vars(\E k \in DOMAIN submits :
                  \E modelId \in submits[k].pending :
                      \E outcome \in SettlingOutcomes(modelId) :
                          CallSettles(k, modelId, outcome))

\* C27: when every call of a batch settles, runNeutralityTest returns its
\* result list, and isSending, true from the start of the batch, becomes
\* false again, whether the calls succeed or fail.
C27_FanOutTerminates ==
    /\ (rnt.pc = "awaiting") ~> (rnt.pc = "returned")
    /\ ui.isSending ~> ~ui.isSending

\* runNeutralityTest has returned a list with a failed model, and the UI is
\* idle again after a batch in which every call failed
C27_Witness ==
    /\ rnt.pc = "returned"
    /\ \E i \in DOMAIN rnt.result.responses : HasError(rnt.result.responses[i])
    /\ \E i \in DOMAIN rnt.result.responses : ~HasError(rnt.result.responses[i])
    /\ ~ui.isSending
    /\ submits # <<>>
    /\ submits[Len(submits)].pc = "returned"
    /\ DOMAIN ui.responses # {}
    /\ \A id \in DOMAIN ui.responses : ui.responses[id].status = "error"

\* C28: the analysis in the UI state belongs to the latest submit: an
\* analysis shown is the one returned for the latest submit's request, and
\* while the latest submit's analyzeResponses call is in flight isAnalyzing
\* stays true, whatever call of an earlier submit completes meanwhile.
C28_AnalysisOfLatestSubmit ==
    /\ ui.analysis # Null => ui.analysis = [t |-> "analysis", v |-> Len(submits)]
    /\ submits # <<>> /\ submits[Len(submits)].pc = "analyzing" => ui.isAnalyzing

\* C29: every key of responses is a currently selected model, whatever the
\* interleaving of toggleModel and of the completions of the fan-out, and
\* the output of a model deselected while its call was in flight is not
\* sent to analyzeResponses.
C29_ResponsesOfSelectedOnly ==
    /\ [](DOMAIN ui.responses \subseteq Range(ui.selectedModels))
    /\ [][\A k \in DOMAIN submits :
            FanOutEnds(k) /\ submits'[k].pc = "analyzing" =>
                \A i \in DOMAIN submits'[k].request.responses :
                    submits'[k].request.responses[i].modelId \in Range(ui.selectedModels)
       ]_vars

\* ------------------------------------------------------------------------
\* The models an AnalysisResult scores (SpecAnalyze)
\* ------------------------------------------------------------------------
\* C30: every entry of the models of a returned AnalysisResult has the
\* modelId of one of the request's responses, and no two entries have the
\* same modelId.
C30_EntriesOfSubmittedModels ==
    Validated =>
        /\ \A k \in DOMAIN ResultEntries :
              \E i \in DOMAIN an.input.responses :
                  Get(ResultEntries[k], "modelId") = Str(an.input.responses[i].modelId)
        /\ \A k, l \in DOMAIN ResultEntries :
              Get(ResultEntries[k], "modelId") = Get(ResultEntries[l], "modelId") => k = l

====
